---------------------------- MODULE Spec2Model ----------------------------
(***************************************************************************)
(* Span resolution and hierarchical classification of address strings.     *)
(*                                                                         *)
(*   Encoder     src/data/convert_entity_to_token.py                       *)
(*   Decoder     src/inference_service/convert_tokens_to_entities.py       *)
(*   Classifier  src/inference_service/convert_to_11_levels.py             *)
(*                                                                         *)
(* A Python str is a sequence of one-character strings.  A dict is a       *)
(* sequence of [key, value] records with distinct keys, in insertion       *)
(* order.  A dict key (a category) and a tag are sequences of atoms, so    *)
(* that "B-" + category and split('-', 1) are computed, not assumed.       *)
(***************************************************************************)
EXTENDS Integers, Sequences, FiniteSets, TLC

VARIABLES
    \* Encoder: convert_address_to_token
    enc_pc, original_address, address_components, entity_positions,
    tokens, ner_tags, current_pos, enc_j, decoded,
    \* Classifier: classify_elements_to_11_levels
    cls_pc, original_text, entities_in, cls_k, cls_c, indices, used_indices,
    index, levels, exc,
    \* Decoder: AddressFormatter.extract_entities_from_tokens
    dec_pc, dec_in_tokens, dec_in_tags, dec_i,
    entities, current_entity, current_tokens,
    \* Calls in progress at the same time, each with its own frame
    calls,
    \* Batch converters over line-delimited files
    batch_pc, batch_fn, batch_lines, batch_out_dir, batch_i, results, output,
    \* format_address: the flat mapping built from the decoder's entities
    formatted,
    \* batch_tag_addresses: its arguments, the two files, its locals, and the
    \* number of times it was invoked
    tag_pc, addresses, output_file, progress_file, start_index, current_index, result, runs

enc_vars == <<enc_pc, original_address, address_components, entity_positions,
              tokens, ner_tags, current_pos, enc_j, decoded>>

dec_vars == <<dec_pc, dec_in_tokens, dec_in_tags, dec_i,
              entities, current_entity, current_tokens>>

cls_vars == <<cls_pc, original_text, entities_in, cls_k, cls_c, indices,
              used_indices, index, levels, exc>>

conc_vars == <<calls>>

\* Everything outside the three single-call components.
batch_vars == <<batch_pc, batch_fn, batch_lines, batch_out_dir, batch_i, results,
                output>>

hand_vars == <<formatted>>

tag_vars == <<tag_pc, addresses, output_file, progress_file, start_index, current_index,
              result, runs>>

ext_vars == <<conc_vars, batch_vars, hand_vars, tag_vars>>

vars == <<enc_vars, dec_vars, cls_vars, ext_vars>>

-----------------------------------------------------------------------------
(* Bounds of the model *)

MaxSeqLen == 3

MaxTextLen == 3

MaxMapChars == 3

MaxLvlTextLen == 4

MaxLvlEntries == 3

-----------------------------------------------------------------------------
(* Python values *)

\* Python's None; no str of the model equals it.
None == <<"None">>

\* bool(x) for a str, a list or None.
Truthy(x) == x # None /\ x # <<>>

Min(a, b) == IF a < b THEN a ELSE b

Max(a, b) == IF a > b THEN a ELSE b

\* All sequences over S of length at most n.
SeqsUpTo(S, n) == UNION {[1..k -> S] : k \in 0..n}

\* s[a:b] for 0 <= a, with Python's clamping of b.
Slice(s, a, b) == SubSeq(s, a + 1, Min(b, Len(s)))

\* ''.join(parts)
RECURSIVE Join(_)
Join(parts) ==
    IF parts = <<>> THEN <<>> ELSE Head(parts) \o Join(Tail(parts))

\* s.startswith(prefix)
StartsWith(s, prefix) ==
    /\ Len(s) >= Len(prefix)
    /\ SubSeq(s, 1, Len(prefix)) = prefix

Comma == ","

Space == " "

\* s.find(sub, start): the lowest offset >= start where sub occurs, else -1.
Find(s, sub, start) ==
    LET hits == {i \in start..(Len(s) - Len(sub)) :
                    SubSeq(s, i + 1, i + Len(sub)) = sub}
    IN  IF hits = {} THEN -1
        ELSE CHOOSE i \in hits : \A j \in hits : i <= j

\* s.strip()
RECURSIVE LStrip(_)
LStrip(s) == IF s # <<>> /\ Head(s) = Space THEN LStrip(Tail(s)) ELSE s

RECURSIVE RStrip(_)
RStrip(s) ==
    IF s # <<>> /\ s[Len(s)] = Space THEN RStrip(SubSeq(s, 1, Len(s) - 1)) ELSE s

Strip(s) == RStrip(LStrip(s))

\* s.split(','): the pieces between the commas, empty pieces kept.
RECURSIVE Split(_)
Split(s) ==
    LET i == Find(s, <<Comma>>, 0) IN
    IF i = -1 THEN <<s>>
    ELSE <<SubSeq(s, 1, i)>> \o Split(SubSeq(s, i + 2, Len(s)))

\* [f(x) for x in xs] with f = strip
RECURSIVE StripAll(_)
StripAll(xs) ==
    IF xs = <<>> THEN <<>> ELSE <<Strip(Head(xs))>> \o StripAll(Tail(xs))

\* dict operations: key in d, d[key], d.get(key, default)
DictHas(d, k) == \E i \in DOMAIN d : d[i].key = k

DictIndex(d, k) == CHOOSE i \in DOMAIN d : d[i].key = k

DictGet(d, k) == d[DictIndex(d, k)].value

\* d.get(k, default) as it would be if the key were never looked up.
DictGetOrIgnoresKey(d, k, default) == default

DictGetOr(d, k, default) == IF DictHas(d, k) THEN DictGet(d, k) ELSE default

\* d[k] = v
DictSet(d, k, v) ==
    IF DictHas(d, k)
    THEN [d EXCEPT ![DictIndex(d, k)].value = v]
    ELSE Append(d, [key |-> k, value |-> v])

DictKeys(d) == {d[i].key : i \in DOMAIN d}

-----------------------------------------------------------------------------
(* Tags *)

Dash == "-"

\* f"{prefix}-{type}"
FormatTag(prefix, type) == <<prefix, Dash>> \o type

TagO == <<"O">>

\* Position of the first '-' in s, 0 when there is none.
FirstDash(s) ==
    IF \E i \in DOMAIN s : s[i] = Dash
    THEN CHOOSE i \in DOMAIN s : s[i] = Dash /\ \A j \in 1..(i - 1) : s[j] # Dash
    ELSE 0

\* Drops the whole prefix up to the LAST '-': what split('-')[-1] would give.
SplitTypeLastDash(tag) ==
    LET i == IF \E k \in DOMAIN tag : tag[k] = Dash
             THEN CHOOSE k \in DOMAIN tag :
                     tag[k] = Dash /\ \A j \in (k + 1)..Len(tag) : tag[j] # Dash
             ELSE 0
    IN  SubSeq(tag, i + 1, Len(tag))

\* current_entity.split('-', 1)[1] if '-' in current_entity else current_entity
SplitType(tag) ==
    IF FirstDash(tag) # 0
    THEN SubSeq(tag, FirstDash(tag) + 1, Len(tag))
    ELSE tag

-----------------------------------------------------------------------------
(* Decoder *)

DecCategories == {<<"road">>, <<"sub", Dash, "poi">>}

DecTags ==
    {TagO} \cup {FormatTag(p, c) : p \in {"B", "I", "E", "S"}, c \in DecCategories}

DecTokens == {<<"a">>, <<"b">>}

\* if entity_type not in entities: entities[entity_type] = []
\* entities[entity_type].append(entity_text)
AppendEntity(ents, entity_type, entity_text) ==
    DictSet(ents, entity_type, Append(DictGetOr(ents, entity_type, <<>>), entity_text))

\* The flush written four times in the loop and after it: the guard
\* "current_entity and current_tokens" and the append under the open type.
FlushDropsOpen(st) == st.entities

Flush(st) ==
    IF Truthy(st.current_entity) /\ Truthy(st.current_tokens)
    THEN AppendEntity(st.entities, SplitType(st.current_entity), Join(st.current_tokens))
    ELSE st.entities

\* Branch 1: tag.startswith('B-') or tag.startswith('S-')
DecBegin(st, token, tag) ==
    LET flushed == Flush(st) IN
    IF StartsWith(tag, <<"S", Dash>>)
    THEN [entities |-> AppendEntity(flushed, SplitType(tag), Join(<<token>>)),
          current_entity |-> None,
          current_tokens |-> <<>>]
    ELSE [entities |-> flushed,
          current_entity |-> tag,
          current_tokens |-> <<token>>]

\* Branch 2: tag.startswith('I-') and current_entity
DecInside(st, token, tag) ==
    [st EXCEPT !.current_tokens = Append(@, token)]

\* Branch 3: tag.startswith('E-') and current_entity
DecEnd(st, token, tag) ==
    LET grown == [st EXCEPT !.current_tokens = Append(@, token)] IN
    [entities |-> AppendEntity(grown.entities, SplitType(grown.current_entity),
                               Join(grown.current_tokens)),
     current_entity |-> None,
     current_tokens |-> <<>>]

\* Branch 4 (else), as it would be if an idle I-/E- tag opened an entity.
DecOtherOpensIdle(st, token, tag) ==
    IF ~Truthy(st.current_entity) /\ tag # TagO
    THEN [entities |-> st.entities, current_entity |-> tag, current_tokens |-> <<token>>]
    ELSE [entities |-> Flush(st), current_entity |-> None, current_tokens |-> <<>>]

\* Branch 4: else
DecOther(st, token, tag) ==
    [entities |-> Flush(st), current_entity |-> None, current_tokens |-> <<>>]

\* One iteration of "for token, tag in zip(tokens, ner_tags)".
DecStep(st, token, tag) ==
    IF StartsWith(tag, <<"B", Dash>>) \/ StartsWith(tag, <<"S", Dash>>)
    THEN DecBegin(st, token, tag)
    ELSE IF StartsWith(tag, <<"I", Dash>>) /\ Truthy(st.current_entity)
    THEN DecInside(st, token, tag)
    ELSE IF StartsWith(tag, <<"E", Dash>>) /\ Truthy(st.current_entity)
    THEN DecEnd(st, token, tag)
    ELSE DecOther(st, token, tag)

DecStart == [entities |-> <<>>, current_entity |-> None, current_tokens |-> <<>>]

\* The whole function on tokens[1..n], ner_tags[1..n].
RECURSIVE DecFold(_, _, _)
DecFold(toks, tags, n) ==
    IF n = 0 THEN DecStart
    ELSE DecStep(DecFold(toks, tags, n - 1), toks[n], tags[n])

\* len(list(zip(tokens, ner_tags)))
ZipLen(toks, tags) == Min(Len(toks), Len(tags))

extract_entities_from_tokens(toks, tags) ==
    Flush(DecFold(toks, tags, ZipLen(toks, tags)))

DecState == [entities |-> entities, current_entity |-> current_entity,
             current_tokens |-> current_tokens]

DecInit ==
    /\ \E n \in 0..MaxSeqLen :
          /\ dec_in_tokens \in [1..n -> DecTokens]
          /\ dec_in_tags \in [1..n -> DecTags]
    /\ dec_pc = "loop"
    /\ dec_i = 0
    /\ entities = <<>>
    /\ current_entity = None
    /\ current_tokens = <<>>

\* One loop iteration.
DecRead ==
    /\ dec_pc = "loop"
    /\ dec_i < ZipLen(dec_in_tokens, dec_in_tags)
    /\ LET st == DecStep(DecState, dec_in_tokens[dec_i + 1], dec_in_tags[dec_i + 1]) IN
          /\ entities' = st.entities
          /\ current_entity' = st.current_entity
          /\ current_tokens' = st.current_tokens
    /\ dec_i' = dec_i + 1
    /\ UNCHANGED <<dec_pc, dec_in_tokens, dec_in_tags>>
    /\ UNCHANGED <<enc_vars, cls_vars, ext_vars>>

\* After the loop: the last flush and the return.
DecReturn ==
    /\ dec_pc = "loop"
    /\ dec_i = ZipLen(dec_in_tokens, dec_in_tags)
    /\ entities' = Flush(DecState)
    /\ dec_pc' = "done"
    /\ UNCHANGED <<dec_in_tokens, dec_in_tags, dec_i, current_entity, current_tokens>>
    /\ UNCHANGED <<enc_vars, cls_vars, ext_vars>>

-----------------------------------------------------------------------------
(* Encoder *)

TextAlphabet == {"a", "b", Space}

ValueAlphabet == TextAlphabet \cup {Comma}

EncCategories == {<<"road">>, <<"sub", Dash, "poi">>}

Texts == SeqsUpTo(TextAlphabet, MaxTextLen)

\* The category maps of at most two entries holding at most MaxMapChars
\* characters in all.
EncMaps ==
    {<<>>}
    \cup {<<[key |-> k, value |-> v]>> :
             k \in EncCategories, v \in SeqsUpTo(ValueAlphabet, MaxMapChars)}
    \cup UNION {{<<[key |-> k1, value |-> v1], [key |-> k2, value |-> v2]>> :
                    k2 \in EncCategories \ {k1},
                    v1 \in [1..n -> ValueAlphabet],
                    v2 \in SeqsUpTo(ValueAlphabet, MaxMapChars - n)} :
                     n \in 0..MaxMapChars, k1 \in EncCategories}

\* Lines 31-35: the candidates of one component value.
Candidates(component_value) ==
    IF Find(component_value, <<Comma>>, 0) # -1
    THEN StripAll(Split(component_value))
    ELSE <<component_value>>

\* Lines 37-49: the positions of the candidates of one component, in order.
RECURSIVE LocateEntities(_, _, _)
LocateEntities(ents, component_type, address) ==
    IF ents = <<>> THEN <<>>
    ELSE LET entity == Head(ents)
             start_pos == Find(address, entity, 0)
             rest == LocateEntities(Tail(ents), component_type, address)
         IN  IF ~Truthy(entity) THEN rest
             ELSE IF start_pos # -1
             THEN <<[start |-> start_pos, end |-> start_pos + Len(entity),
                     text |-> entity, type |-> component_type]>> \o rest
             ELSE rest

\* Lines 27-49: entity_positions before the sort.
RECURSIVE LocateComponents(_, _)
LocateComponents(components, address) ==
    IF components = <<>> THEN <<>>
    ELSE LET c == Head(components)
             rest == LocateComponents(Tail(components), address)
         IN  IF ~Truthy(c.value) THEN rest
             ELSE LocateEntities(Candidates(c.value), c.key, address) \o rest

\* Inserts e after every element whose start is <= e.start (a stable sort).
RECURSIVE InsertByStart(_, _)
InsertByStart(sorted, e) ==
    IF sorted = <<>> THEN <<e>>
    ELSE IF Head(sorted).start <= e.start
         THEN <<Head(sorted)>> \o InsertByStart(Tail(sorted), e)
         ELSE <<e>> \o sorted

\* Line 52: entity_positions.sort(key=lambda x: x['start'])
RECURSIVE SortByStart(_)
SortByStart(xs) ==
    IF xs = <<>> THEN <<>>
    ELSE InsertByStart(SortByStart(SubSeq(xs, 1, Len(xs) - 1)), xs[Len(xs)])

\* Lines 60-62 and 88-90: one token and one O per character of a text.
CharTokens(text) == [i \in 1..Len(text) |-> <<text[i]>>]

OTags(text) == [i \in 1..Len(text) |-> TagO]

\* Lines 70-81 as they would be if the last character of an entity were
\* tagged as an interior one.
EntityTagNoEnd(i, entity_length, type) ==
    IF entity_length = 1 THEN FormatTag("S", type)
    ELSE IF i = 0 THEN FormatTag("B", type)
    ELSE FormatTag("I", type)

\* Lines 70-81: the tag of character i (from 0) of an entity.
EntityTag(i, entity_length, type) ==
    IF entity_length = 1 THEN FormatTag("S", type)
    ELSE IF i = 0 THEN FormatTag("B", type)
    ELSE IF i = entity_length - 1 THEN FormatTag("E", type)
    ELSE FormatTag("I", type)

EntityTags(entity) ==
    [i \in 1..Len(entity.text) |-> EntityTag(i - 1, Len(entity.text), entity.type)]

\* Lines 58-59: the text before the entity that is not yet consumed.
GapText(address, pos, entity) ==
    IF pos < entity.start THEN Slice(address, pos, entity.start) ELSE <<>>

\* Lines 86-87: the text after the last entity.
RemainingText(address, pos) ==
    IF pos < Len(address) THEN Slice(address, pos, Len(address)) ELSE <<>>

EncIdle ==
    /\ enc_pc = "idle"
    /\ original_address = <<>>
    /\ address_components = <<>>
    /\ entity_positions = <<>>
    /\ tokens = <<>>
    /\ ner_tags = <<>>
    /\ current_pos = 0
    /\ enc_j = 0
    /\ decoded = <<>>

EncInit ==
    /\ enc_pc = "locate"
    /\ original_address \in Texts
    /\ address_components \in EncMaps
    /\ entity_positions = <<>>
    /\ tokens = <<>>
    /\ ner_tags = <<>>
    /\ current_pos = 0
    /\ enc_j = 0
    /\ decoded = <<>>

\* Lines 24-52: locate every candidate, then sort by start.
EncLocate ==
    /\ enc_pc = "locate"
    /\ entity_positions' = SortByStart(LocateComponents(address_components, original_address))
    /\ enc_pc' = "emit"
    /\ UNCHANGED <<original_address, address_components, tokens, ner_tags,
                   current_pos, enc_j, decoded>>
    /\ UNCHANGED <<dec_vars, cls_vars, ext_vars>>

\* Lines 56-83: one iteration of "for entity in entity_positions".
EncEmit ==
    /\ enc_pc = "emit"
    /\ enc_j < Len(entity_positions)
    /\ LET entity == entity_positions[enc_j + 1]
           gap_text == GapText(original_address, current_pos, entity)
       IN  /\ tokens' = tokens \o CharTokens(gap_text) \o CharTokens(entity.text)
           /\ ner_tags' = ner_tags \o OTags(gap_text) \o EntityTags(entity)
           /\ current_pos' = entity.end
    /\ enc_j' = enc_j + 1
    /\ UNCHANGED <<enc_pc, original_address, address_components, entity_positions, decoded>>
    /\ UNCHANGED <<dec_vars, cls_vars, ext_vars>>

\* Lines 85-98: the remaining text, and the return.
EncReturn ==
    /\ enc_pc = "emit"
    /\ enc_j = Len(entity_positions)
    /\ LET remaining_text == RemainingText(original_address, current_pos) IN
          /\ tokens' = tokens \o CharTokens(remaining_text)
          /\ ner_tags' = ner_tags \o OTags(remaining_text)
    /\ enc_pc' = "done"
    /\ UNCHANGED <<original_address, address_components, entity_positions,
                   current_pos, enc_j, decoded>>
    /\ UNCHANGED <<dec_vars, cls_vars, ext_vars>>

\* The decoder applied to the encoder's result.
EncDecode ==
    /\ enc_pc = "done"
    /\ decoded' = extract_entities_from_tokens(tokens, ner_tags)
    /\ enc_pc' = "decoded"
    /\ UNCHANGED <<original_address, address_components, entity_positions,
                   tokens, ner_tags, current_pos, enc_j>>
    /\ UNCHANGED <<dec_vars, cls_vars, ext_vars>>

DecIdle ==
    /\ dec_pc = "idle"
    /\ dec_in_tokens = <<>>
    /\ dec_in_tags = <<>>
    /\ dec_i = 0
    /\ entities = <<>>
    /\ current_entity = None
    /\ current_tokens = <<>>

-----------------------------------------------------------------------------
(* Encoder: the whole call as a function of its arguments *)

\* Lines 56-83: the emission loop from entity number j (from 0) on.
RECURSIVE EmitFrom(_, _, _, _)
EmitFrom(address, positions, j, st) ==
    IF j = Len(positions) THEN st
    ELSE LET entity == positions[j + 1]
             gap_text == GapText(address, st.current_pos, entity)
         IN  EmitFrom(address, positions, j + 1,
                      [tokens |-> st.tokens \o CharTokens(gap_text)
                                     \o CharTokens(entity.text),
                       ner_tags |-> st.ner_tags \o OTags(gap_text) \o EntityTags(entity),
                       current_pos |-> entity.end])

\* Lines 8-98: the tokens and ner_tags of the result.
convert_address_to_token(components, address) ==
    LET positions == SortByStart(LocateComponents(components, address))
        st == EmitFrom(address, positions, 0,
                       [tokens |-> <<>>, ner_tags |-> <<>>, current_pos |-> 0])
        remaining_text == RemainingText(address, st.current_pos)
    IN  [tokens |-> st.tokens \o CharTokens(remaining_text),
         ner_tags |-> st.ner_tags \o OTags(remaining_text)]

-----------------------------------------------------------------------------
(* Encoder properties *)

EncReturned == enc_pc \in {"done", "decoded"}

\* C1: the returned tokens and ner_tags are as long as the text, and the
\* tokens concatenate to the text, for every text and every category map.
C1_LengthAndConcatenation ==
    EncReturned =>
       /\ Len(tokens) = Len(original_address)
       /\ Len(ner_tags) = Len(original_address)
       /\ Join(tokens) = original_address

\* The values a category lists: the trimmed pieces of a comma-delimited
\* value, or the value itself, without the empty ones.
RECURSIVE NonEmpty(_)
NonEmpty(xs) ==
    IF xs = <<>> THEN <<>>
    ELSE IF Head(xs) = <<>> THEN NonEmpty(Tail(xs))
    ELSE <<Head(xs)>> \o NonEmpty(Tail(xs))

ListedValues(raw) ==
    NonEmpty(IF \E i \in DOMAIN raw : raw[i] = Comma THEN StripAll(Split(raw)) ELSE <<raw>>)

Listed(c) == ListedValues(DictGetOr(address_components, c, <<>>))

\* Every listed value of every category, with its category.
AllListed ==
    UNION {{<<c, k>> : k \in 1..Len(Listed(c))} : c \in EncCategories}

Occurrences(text, v) ==
    {i \in 0..(Len(text) - Len(v)) : SubSeq(text, i + 1, i + Len(v)) = v}

Window(text, v) ==
    LET i == CHOOSE j \in Occurrences(text, v) : TRUE IN i..(i + Len(v) - 1)

\* The round trip's precondition: every listed value occurs exactly once in
\* the text and no two listed values overlap.
RoundTripInput ==
    /\ \A e \in AllListed :
          Cardinality(Occurrences(original_address, Listed(e[1])[e[2]])) = 1
    /\ \A e, f \in AllListed :
          e # f => Window(original_address, Listed(e[1])[e[2]])
                      \cap Window(original_address, Listed(f[1])[f[2]]) = {}

\* C3 as stated: the decoder returns for every category the values of the
\* map in the order the map lists them, and no other category.
C3_RoundTripMapOrder ==
    (enc_pc = "decoded" /\ RoundTripInput) =>
       /\ DictKeys(decoded) = {c \in EncCategories : Listed(c) # <<>>}
       /\ \A c \in DictKeys(decoded) : DictGet(decoded, c) = Listed(c)

\* C3: under the same precondition the decoder returns for every category
\* the same values with the same multiplicity, in the order of their
\* positions in the text, and no other category.
C3_RoundTripTextOrder ==
    (enc_pc = "decoded" /\ RoundTripInput) =>
       /\ DictKeys(decoded) = {c \in EncCategories : Listed(c) # <<>>}
       /\ \A c \in DictKeys(decoded) :
             LET got == DictGet(decoded, c) IN
             /\ Len(got) = Len(Listed(c))
             /\ {got[k] : k \in DOMAIN got} = {Listed(c)[k] : k \in DOMAIN Listed(c)}
             /\ \A k \in 1..(Len(got) - 1) :
                   Find(original_address, got[k], 0) < Find(original_address, got[k + 1], 0)

\* A category listing two values against their order in the text.
C3_Witness ==
    /\ enc_pc = "decoded"
    /\ RoundTripInput
    /\ original_address = <<"a", "b">>
    /\ address_components = <<[key |-> <<"sub", Dash, "poi">>, value |-> <<"b", Comma, "a">>]>>
    /\ decoded = <<[key |-> <<"sub", Dash, "poi">>, value |-> <<<<"a">>, <<"b">>>>]>>

\* C9: an iteration of the emission loop emits exactly the text from the
\* consumed mark to the end of the span when that lies beyond the mark (the
\* gap and the tail of the span), nothing when the span lies inside the
\* mark, and the mark never moves back.
C9_ConsumedNeverReemitted ==
    [][(enc_pc = "emit" /\ enc_j' = enc_j + 1) =>
          LET entity == entity_positions[enc_j + 1]
              mark == Max(current_pos, entity.end)
          IN  /\ tokens' = tokens \o CharTokens(Slice(original_address, current_pos, mark))
              /\ current_pos' = mark]_vars

\* The located entities holding this text, as positions of entity_positions.
RequestsOf(text) ==
    {i \in DOMAIN entity_positions : entity_positions[i].text = text}

\* C11: when a value is requested twice and occurs in the text a second
\* time after the end of its first occurrence, the first request is located
\* at the first occurrence and the second request at that next occurrence,
\* never at the offsets of the first.
C11_SecondRequestNextOccurrence ==
    (enc_pc \in {"emit", "done", "decoded"}) =>
       \A i, j \in DOMAIN entity_positions :
          LET value == entity_positions[i].text
              first == Find(original_address, value, 0)
              next == Find(original_address, value, first + Len(value))
          IN  (i < j /\ RequestsOf(value) = {i, j} /\ next # -1)
                 => /\ entity_positions[i].start = first
                    /\ entity_positions[j].start = next

\* The well-formed run of a category over n characters.
Run(c, n) ==
    IF n = 1 THEN <<FormatTag("S", c)>>
    ELSE <<FormatTag("B", c)>> \o [i \in 1..(n - 2) |-> FormatTag("I", c)]
            \o <<FormatTag("E", c)>>

\* The characters of the text at the offsets from..to-1, one token each.
TokensAt(from, to) == [i \in 1..(to - from) |-> <<original_address[from + i]>>]

\* The offsets emitted with O ahead of span k, or after the last span when
\* k is one more than the number of spans.
GapRange(k) ==
    LET from == IF k = 1 THEN 0 ELSE entity_positions[k - 1].end
        to == IF k > Len(entity_positions) THEN Len(original_address)
              ELSE entity_positions[k].start
    IN  from..(to - 1)

OutsideAllSpans(p) ==
    \A k \in DOMAIN entity_positions :
       ~(entity_positions[k].start <= p /\ p < entity_positions[k].end)

\* C23: the iteration for a located span appends O for the characters of
\* the gap ahead of it and then the well-formed run of the span's category
\* over the span's characters (S for one character, else B, I..., E); the
\* return appends O for the rest; and every character outside all spans
\* lies in exactly one of these O stretches.
C23_WellFormedRuns ==
    /\ [][(enc_pc = "emit" /\ enc_j' = enc_j + 1) =>
             LET e == entity_positions[enc_j + 1]
                 gap == GapRange(enc_j + 1)
             IN  /\ e.start < e.end
                 /\ current_pos = (IF enc_j = 0 THEN 0 ELSE entity_positions[enc_j].end)
                 /\ ner_tags' = ner_tags \o [i \in 1..Cardinality(gap) |-> TagO]
                                   \o Run(e.type, e.end - e.start)
                 /\ tokens' = tokens
                                 \o TokensAt(current_pos, current_pos + Cardinality(gap))
                                 \o TokensAt(e.start, e.end)]_vars
    /\ [][(enc_pc = "emit" /\ enc_pc' = "done") =>
             LET gap == GapRange(Len(entity_positions) + 1) IN
             /\ ner_tags' = ner_tags \o [i \in 1..Cardinality(gap) |-> TagO]
             /\ tokens' = tokens \o TokensAt(current_pos, current_pos + Cardinality(gap))]_vars
    /\ [](enc_pc \in {"emit", "done", "decoded"} =>
             \A p \in 0..(Len(original_address) - 1) :
                OutsideAllSpans(p) =>
                   Cardinality({k \in 1..(Len(entity_positions) + 1) : p \in GapRange(k)}) = 1)

\* A returned call with a span of two characters or more and a character
\* outside all spans.
C23_Witness ==
    /\ enc_pc = "done"
    /\ \E k \in DOMAIN entity_positions :
          entity_positions[k].end - entity_positions[k].start >= 2
    /\ \E p \in 0..(Len(original_address) - 1) : OutsideAllSpans(p)
    /\ \E i \in DOMAIN ner_tags : ner_tags[i] = TagO

\* The candidates of a value: its pieces between commas, each trimmed,
\* without the empty ones.
TrimmedCandidates(value) == NonEmpty(StripAll(Split(value)))

\* The texts of the located entities of a category.
LocatedTexts(c) ==
    {entity_positions[k].text : k \in {i \in DOMAIN entity_positions :
                                          entity_positions[i].type = c}}

\* C24: the values searched for a category are the trimmed, non-empty
\* pieces of its value, with or without a comma in it: the located entities
\* of the category are exactly those of these candidates that occur in the
\* text.
C24_CandidatesTrimmed ==
    (enc_pc \in {"emit", "done", "decoded"}) =>
       \A c \in EncCategories :
          LET cands == TrimmedCandidates(DictGetOr(address_components, c, <<>>)) IN
          LocatedTexts(c) = {cands[k] : k \in {i \in DOMAIN cands :
                                                  Find(original_address, cands[i], 0) # -1}}

\* The same for the values that hold a comma.
C24_CommaValuesTrimmed ==
    (enc_pc \in {"emit", "done", "decoded"}) =>
       \A c \in EncCategories :
          LET value == DictGetOr(address_components, c, <<>>)
              cands == TrimmedCandidates(value)
          IN  Find(value, <<Comma>>, 0) # -1 =>
                 LocatedTexts(c) = {cands[k] : k \in {i \in DOMAIN cands :
                                                  Find(original_address, cands[i], 0) # -1}}

-----------------------------------------------------------------------------
(* Classifier: re-location of the values *)

ClsTextAlphabet == {"a", Space}

ClsValueAlphabet == ClsTextAlphabet \cup {Comma}

Key(name) == <<name>>

ClsCategories == {Key("prov"), Key("road"), Key("poi"), Key("assist")}

ClsTexts == SeqsUpTo(ClsTextAlphabet, MaxTextLen)

\* A value of the mapping: a str, or None.
ClsValues(n) == SeqsUpTo(ClsValueAlphabet, n) \cup {None}

ValueSize(v) == IF v = None THEN 0 ELSE Len(v)

\* The mappings of at most two entries holding at most MaxMapChars
\* characters in all; a value may be None.
ClsMaps ==
    {<<>>}
    \cup {<<[key |-> k, value |-> v]>> :
             k \in ClsCategories, v \in ClsValues(MaxMapChars)}
    \cup UNION {{<<[key |-> k1, value |-> v1], [key |-> k2, value |-> v2]>> :
                    k2 \in ClsCategories \ {k1},
                    v2 \in ClsValues(MaxMapChars - ValueSize(v1))} :
                     k1 \in ClsCategories, v1 \in ClsValues(MaxMapChars)}

\* A span is <<start, end>>; NoSpan stands for None where a span is expected.
NoSpan == <<-1, -1>>

SpanRange(span) == span[1]..(span[2] - 1)

\* Lines 28-39, find_value as it would be without the check of used_indices.
FindValueUnchecked(addr, used, value, start) ==
    LET pos == Find(addr, value, start) IN
    IF pos # -1 THEN <<pos, pos + Len(value)>> ELSE NoSpan

\* Lines 28-39, find_value as it would be if the retry resumed at pos + 1.
RECURSIVE FindValueRetryNext(_, _, _, _)
FindValueRetryNext(addr, used, value, start) ==
    LET pos == Find(addr, value, start)
        end == pos + Len(value)
    IN  IF pos # -1
        THEN IF \E i \in used : i \in pos..(end - 1)
             THEN FindValueRetryNext(addr, used, value, pos + 1)
             ELSE <<pos, end>>
        ELSE NoSpan

\* Lines 28-39: find_value(value, start), the span it returns.
RECURSIVE FindValue(_, _, _, _)
FindValue(addr, used, value, start) ==
    LET pos == Find(addr, value, start)
        end == pos + Len(value)
    IN  IF pos # -1
        THEN IF \E i \in used : i \in pos..(end - 1)
             THEN FindValue(addr, used, value, end)
             ELSE <<pos, end>>
        ELSE NoSpan

\* Line 37, as it would be if a value that is not found marked offset 0 used.
UsedAfterMarksMissing(used, span) ==
    IF span[1] # -1 THEN used \cup (span[1]..(span[2] - 1)) ELSE used \cup {0}

\* Line 37: used_indices after find_value returned span.
UsedAfter(used, span) ==
    IF span # NoSpan THEN used \cup SpanRange(span) ELSE used

\* Lines 43-47 and 53-54: the candidates of one value, in order.
HasComma(value) == Find(value, <<Comma>>, 0) # -1

ClsCandidates(value) ==
    IF HasComma(value) THEN StripAll(Split(value)) ELSE <<value>>

\* Lines 45, 49-50 and 55-56: indices after candidate number c (from 0) of
\* the value of key returned span.
IndicesAfter(ind, key, value, c, span) ==
    LET opened == IF HasComma(value) /\ c = 0 THEN DictSet(ind, key, <<>>) ELSE ind IN
    IF span = NoSpan THEN opened
    ELSE IF HasComma(value)
         THEN DictSet(opened, key, Append(DictGet(opened, key), span))
         ELSE DictSet(opened, key, <<span>>)

-----------------------------------------------------------------------------
(* Decoder properties *)

\* The step from the current state is a loop iteration reading this tag.
DecReads(tag) ==
    /\ dec_pc = "loop"
    /\ dec_i' = dec_i + 1
    /\ dec_in_tags[dec_i + 1] = tag

DecIsOpen == Truthy(current_entity)

DecOpenType == SplitType(current_entity)

\* C5: while an entity of category c is open, a character is appended to it
\* only when its tag is I-c or E-c of that same category c; a tag I-d or E-d
\* of another category d flushes the open entity under c without the
\* character and leaves the decoder idle.
C5_MatchingCategoryOnly ==
    [][\A tag \in DecTags :
          (DecReads(tag) /\ DecIsOpen)
          => /\ current_tokens' = Append(current_tokens, dec_in_tokens[dec_i + 1])
                   => tag = FormatTag("I", DecOpenType)
             /\ entities' = AppendEntity(entities, DecOpenType,
                                Join(Append(current_tokens, dec_in_tokens[dec_i + 1])))
                   => tag = FormatTag("E", DecOpenType)
             /\ ((StartsWith(tag, <<"I", Dash>>) \/ StartsWith(tag, <<"E", Dash>>))
                   /\ SplitType(tag) # DecOpenType)
                => /\ entities' = AppendEntity(entities, DecOpenType, Join(current_tokens))
                   /\ current_entity' = None
                   /\ current_tokens' = <<>>]_vars

\* The positions of ner_tags, in order, whose tag is B-c or S-c.
RECURSIVE StartPositions(_, _, _)
StartPositions(tags, c, n) ==
    IF n = 0 THEN <<>>
    ELSE IF tags[n] \in {FormatTag("B", c), FormatTag("S", c)}
         THEN Append(StartPositions(tags, c, n - 1), n)
         ELSE StartPositions(tags, c, n - 1)

\* C6: in the returned mapping every character tagged B-c or S-c starts
\* exactly one value recorded under c: the values of c are as many as those
\* characters, the k-th value begins with the k-th such character, and no
\* category is recorded without such a character.
C6_NoOpenedEntityDiscarded ==
    dec_pc = "done" =>
       /\ DictKeys(entities) \subseteq DecCategories
       /\ \A c \in DecCategories :
             LET ps == StartPositions(dec_in_tags, c, Len(dec_in_tags))
                 vals == DictGetOr(entities, c, <<>>)
             IN  /\ Len(vals) = Len(ps)
                 /\ DictHas(entities, c) <=> ps # <<>>
                 /\ \A k \in DOMAIN ps : StartsWith(vals[k], dec_in_tokens[ps[k]])

\* An entity cut short by O, one cut short by a new B-, one ended by the
\* end of the sequence.
C6_Witness ==
    /\ dec_pc = "done"
    /\ dec_in_tags = <<FormatTag("B", <<"road">>), FormatTag("B", <<"sub", Dash, "poi">>),
                       FormatTag("I", <<"sub", Dash, "poi">>)>>
    /\ dec_in_tokens = <<<<"a">>, <<"b">>, <<"a">>>>
    /\ entities = <<[key |-> <<"road">>, value |-> <<<<"a">>>>],
                    [key |-> <<"sub", Dash, "poi">>, value |-> <<<<"b", "a">>>>]>>

\* C7: a tag I-*, E-* or O read while no entity is open adds no value,
\* accumulates no character and leaves the decoder idle.
C7_IdleIgnores ==
    [][\A tag \in DecTags :
          (DecReads(tag) /\ ~DecIsOpen
             /\ (StartsWith(tag, <<"I", Dash>>) \/ StartsWith(tag, <<"E", Dash>>) \/ tag = TagO))
          => /\ entities' = entities
             /\ current_tokens' = current_tokens
             /\ current_tokens' = <<>>
             /\ current_entity' = None]_vars

\* An S- entity was closed, then an E- tag was read while idle.
C7_Witness ==
    /\ dec_i = 2
    /\ StartsWith(dec_in_tags[1], <<"S", Dash>>)
    /\ StartsWith(dec_in_tags[2], <<"E", Dash>>)
    /\ current_entity = None
    /\ current_tokens = <<>>
    /\ Len(entities) = 1

-----------------------------------------------------------------------------
(* Classifier: anchors and levels *)

NoLower == -1

NoUpper(addr) == Len(addr) + 1

\* The same loop as it would be with "if lo < start".
RECURSIVE EligibleNoUpper(_, _, _, _)
EligibleNoUpper(ind, keys, lo, hi) ==
    IF keys = <<>> THEN <<>>
    ELSE (IF DictHas(ind, Head(keys))
          THEN SelectSeq(DictGet(ind, Head(keys)), LAMBDA sp : lo < sp[1])
          ELSE <<>>)
         \o EligibleNoUpper(ind, Tail(keys), lo, hi)

\* "for start, end in indices[key]: if lo < start < hi", over the keys in order.
RECURSIVE Eligible(_, _, _, _)
Eligible(ind, keys, lo, hi) ==
    IF keys = <<>> THEN <<>>
    ELSE (IF DictHas(ind, Head(keys))
          THEN SelectSeq(DictGet(ind, Head(keys)), LAMBDA sp : lo < sp[1] /\ sp[1] < hi)
          ELSE <<>>)
         \o Eligible(ind, Tail(keys), lo, hi)

\* "if m is None or start < m[0]: m = (start, end)" over the spans in order.
RECURSIVE MinFrom(_, _)
MinFrom(m, spans) ==
    IF spans = <<>> THEN m
    ELSE MinFrom(IF m = NoSpan \/ Head(spans)[1] < m[1] THEN Head(spans) ELSE m,
                 Tail(spans))

\* "if m is None or start > m[0]: m = (start, end)" over the spans in order.
RECURSIVE MaxFrom(_, _)
MaxFrom(m, spans) ==
    IF spans = <<>> THEN m
    ELSE MaxFrom(IF m = NoSpan \/ Head(spans)[1] > m[1] THEN Head(spans) ELSE m,
                 Tail(spans))

\* One level's search: the eligible spans and the min and max index.
Sel(ind, keys, lo, hi) ==
    LET spans == Eligible(ind, keys, lo, hi) IN
    [min |-> MinFrom(NoSpan, spans), max |-> MaxFrom(NoSpan, spans), spans |-> spans]

EmptySel == [min |-> NoSpan, max |-> NoSpan, spans |-> <<>>]

\* addr[min[0]:max[1]].strip(), or '' when the level found nothing.
LevelText(addr, sel) ==
    IF sel.min # NoSpan \/ sel.max # NoSpan
    THEN Strip(Slice(addr, sel.min[1], sel.max[2]))
    ELSE <<>>

poi_keys == <<Key("poi"), Key("subpoi"), Key("community"), Key("devzone"),
              Key("village_group")>>

admin_keys == <<Key("prov"), Key("city"), Key("district"), Key("town")>>

road_direction_keys == <<Key("road"), Key("direction")>>

roadno_keys == <<Key("roadno")>>

additional_poi_keys == <<Key("poi"), Key("subpoi"), Key("road"), Key("roadno"),
                         Key("direction"), Key("community"), Key("devzone"),
                         Key("village_group"), Key("houseno")>>

houseno_keys == <<Key("houseno")>>

cellno_keys == <<Key("cellno")>>

floorno_keys == <<Key("floorno")>>

roomno_keys == <<Key("roomno")>>

\* Lines 60-67, as they would be with the comparison of lines 69-76.
PoiMinIndexTakesLargest(ind, addr) ==
    MaxFrom(NoSpan, Eligible(ind, poi_keys, NoLower, NoUpper(addr)))

\* Lines 60-67: the leftmost span of the POI family.
PoiMinIndex(ind, addr) ==
    MinFrom(NoSpan, Eligible(ind, poi_keys, NoLower, NoUpper(addr)))

\* Lines 69-76: the rightmost span of the administrative family.
AdminMaxIndex(ind, addr) ==
    MaxFrom(NoSpan, Eligible(ind, admin_keys, NoLower, NoUpper(addr)))

\* The latest boundary as it would be if only the last entry of latest_keys
\* that is not None were looked at.
RECURSIVE LatestEndOfLast(_)
LatestEndOfLast(latest_keys) ==
    IF latest_keys = <<>> THEN -1
    ELSE IF latest_keys[Len(latest_keys)] # NoSpan
         THEN latest_keys[Len(latest_keys)][2]
         ELSE LatestEndOfLast(SubSeq(latest_keys, 1, Len(latest_keys) - 1))

\* max(valid_latest_keys, key=lambda x: x[1])[1]; -1 when the list is empty.
RECURSIVE LatestEnd(_)
LatestEnd(latest_keys) ==
    IF latest_keys = <<>> THEN -1
    ELSE LET rest == LatestEnd(Tail(latest_keys)) IN
         IF Head(latest_keys) # NoSpan THEN Max(Head(latest_keys)[2], rest) ELSE rest

\* The lower bound of a search as it would be if the level assigned before
\* were not looked at.
AfterIgnoresSpan(span, otherwise) == otherwise

\* x[1] - 1 of the first span that is not None.
After(span, otherwise) == IF span # NoSpan THEN span[2] - 1 ELSE otherwise

\* Lines 91-238: a POI-family span was located.
AssignPoi(ind, addr, poi, admin) ==
    LET lo5 == IF admin # NoSpan THEN admin[2] - 1 ELSE NoLower
        l5 == Sel(ind, road_direction_keys, lo5, poi[1])
        l6 == Sel(ind, roadno_keys, After(l5.max, lo5), poi[1])
        l8 == Sel(ind, additional_poi_keys, poi[2] - 1, NoUpper(addr))
        l9 == Sel(ind, cellno_keys, After(l8.max, poi[2] - 1), NoUpper(addr))
        latest_keys == <<admin, l5.max, l6.max, poi, l8.max, l9.max>>
        l10 == Sel(ind, floorno_keys, LatestEnd(latest_keys) - 1, NoUpper(addr))
        l11 == Sel(ind, roomno_keys, LatestEnd(Append(latest_keys, l10.max)) - 1,
                   NoUpper(addr))
    IN  [l5 |-> l5, l6 |-> l6, l7 |-> [min |-> poi, max |-> poi, spans |-> <<poi>>],
         l8 |-> l8, l9 |-> l9, l10 |-> l10, l11 |-> l11]

\* Lines 248-369: no POI-family span, an administrative span was located.
AssignAdmin(ind, addr, admin) ==
    LET l5 == Sel(ind, road_direction_keys, admin[2] - 1, NoUpper(addr))
        l6 == Sel(ind, roadno_keys, After(l5.max, admin[2] - 1), NoUpper(addr))
        keys8 == <<admin, l5.max, l6.max>>
        l8 == Sel(ind, houseno_keys, LatestEnd(keys8) - 1, NoUpper(addr))
        keys9 == Append(keys8, l8.max)
        l9 == Sel(ind, cellno_keys, LatestEnd(keys9) - 1, NoUpper(addr))
        keys10 == Append(keys9, l9.max)
        l10 == Sel(ind, floorno_keys, LatestEnd(keys10) - 1, NoUpper(addr))
        keys11 == Append(keys10, l10.max)
        l11 == Sel(ind, roomno_keys, LatestEnd(keys11) - 1, NoUpper(addr))
    IN  [l5 |-> l5, l6 |-> l6, l7 |-> EmptySel,
         l8 |-> l8, l9 |-> l9, l10 |-> l10, l11 |-> l11]

\* Lines 371-403, as they would be if levels 8 to 11 were searched from the
\* start of the text when there is no anchor.
AssignNoneSearchesOn(ind, addr) == AssignAdmin(ind, addr, <<0, 0>>)

\* Lines 371-403: neither a POI-family nor an administrative span.
AssignNone(ind, addr) ==
    LET l5 == Sel(ind, road_direction_keys, NoLower, NoUpper(addr))
        l6 == Sel(ind, roadno_keys, After(l5.max, NoLower), NoUpper(addr))
    IN  [l5 |-> l5, l6 |-> l6, l7 |-> EmptySel,
         l8 |-> EmptySel, l9 |-> EmptySel, l10 |-> EmptySel, l11 |-> EmptySel]

\* Lines 91-403: the searches of levels 5 to 11.
Assign(ind, addr) ==
    LET poi == PoiMinIndex(ind, addr)
        admin == AdminMaxIndex(ind, addr)
    IN  IF poi # NoSpan THEN AssignPoi(ind, addr, poi, admin)
        ELSE IF admin # NoSpan THEN AssignAdmin(ind, addr, admin)
        ELSE AssignNone(ind, addr)

\* Line 79: the default of level1, the three characters of "Guangdong Sheng".
DefaultProv == <<"guang", "dong", "sheng">>

\* Lines 421-424: the offsets of every located span.
UsedIndicesFinal(ind) ==
    UNION {UNION {SpanRange(ind[i].value[j]) : j \in DOMAIN ind[i].value} :
              i \in DOMAIN ind}

\* Line 426: the characters of addr at the offsets outside used, in order.
RECURSIVE RemainingParts(_, _, _)
RemainingParts(addr, used, n) ==
    IF n = 0 THEN <<>>
    ELSE RemainingParts(addr, used, n - 1)
         \o (IF (n - 1) \notin used THEN <<addr[n]>> ELSE <<>>)

\* Lines 421-427: remark.
Remark(ind, addr) == Strip(RemainingParts(addr, UsedIndicesFinal(ind), Len(addr)))

\* Lines 78-89 and 405-432: the record returned.
LevelRecord(ents, addr, ind) ==
    LET a == Assign(ind, addr) IN
    [level |-> <<DictGetOr(ents, Key("prov"), DefaultProv),
                 DictGetOr(ents, Key("city"), <<>>),
                 DictGetOr(ents, Key("district"), <<>>),
                 DictGetOr(ents, Key("town"), <<>>),
                 LevelText(addr, a.l5), LevelText(addr, a.l6), LevelText(addr, a.l7),
                 LevelText(addr, a.l8), LevelText(addr, a.l9), LevelText(addr, a.l10),
                 LevelText(addr, a.l11)>>,
     remark |-> Remark(ind, addr),
     original_text |-> addr,
     error |-> None]

\* Lines 436-451: the record returned by the except clause.
ErrorRecord(text, e) ==
    [level |-> [i \in 1..11 |-> <<>>],
     remark |-> <<>>,
     original_text |-> text,
     error |-> <<e>>]

\* Line 434, as it would be with "except TypeError".
HandlerCatchesTypeErrorOnly(e) == e = "TypeError"

\* Line 434: "except Exception" catches every exception the body raises.
HandlerCatches(e) == e \in {"TypeError", "AttributeError"}

-----------------------------------------------------------------------------
(* Classifier: the call *)

ClsIdle ==
    /\ cls_pc = "idle"
    /\ original_text = <<>>
    /\ entities_in = <<>>
    /\ cls_k = 0
    /\ cls_c = 0
    /\ indices = <<>>
    /\ used_indices = {}
    /\ index = NoSpan
    /\ levels = ErrorRecord(<<>>, "idle")
    /\ exc = "none"

ClsInit ==
    /\ cls_pc = "index"
    /\ original_text \in ClsTexts \cup {None}
    /\ entities_in \in ClsMaps
    /\ cls_k = 0
    /\ cls_c = 0
    /\ indices = <<>>
    /\ used_indices = {}
    /\ index = NoSpan
    /\ levels = ErrorRecord(<<>>, "idle")
    /\ exc = "none"

\* Calls that exercise every level: a text of located characters "a" and
\* other characters "b", and a mapping of up to MaxLvlEntries categories
\* each asking for one "a"; find_value gives the k-th entry the k-th "a".
LvlTextAlphabet == {"a", "b"}

LvlTexts == SeqsUpTo(LvlTextAlphabet, MaxLvlTextLen)

LvlCategories ==
    {Key("prov"), Key("city"), Key("district"), Key("town"), Key("road"),
     Key("roadno"), Key("poi"), Key("community"), Key("houseno"), Key("cellno"),
     Key("floorno"), Key("roomno")}

LvlValues == {<<"a">>}

LvlEntries == {[key |-> k, value |-> v] : k \in LvlCategories, v \in LvlValues}

LvlMaps ==
    UNION {{m \in [1..n -> LvlEntries] :
               \A i, j \in 1..n : i # j => m[i].key # m[j].key} :
              n \in 0..MaxLvlEntries}

LvlInit ==
    /\ cls_pc = "index"
    /\ original_text \in LvlTexts
    /\ entities_in \in LvlMaps
    /\ cls_k = 0
    /\ cls_c = 0
    /\ indices = <<>>
    /\ used_indices = {}
    /\ index = NoSpan
    /\ levels = ErrorRecord(<<>>, "idle")
    /\ exc = "none"

\* The entry of "for key, value in entities.items()" being processed.
CurEntry == entities_in[cls_k + 1]

CurCandidate == ClsCandidates(CurEntry.value)[cls_c + 1]

\* The exception the next statement raises, "none" when it raises none:
\* line 43 on a value that is not a str, line 30 and line 426 on a text
\* that is None.
NextRaises ==
    IF cls_k < Len(entities_in)
    THEN IF CurEntry.value = None THEN "TypeError"
         ELSE IF original_text = None THEN "AttributeError"
         ELSE "none"
    ELSE IF original_text = None THEN "TypeError" ELSE "none"

\* Lines 42-58: one call of find_value and the recording of its result.
ClsIndex ==
    /\ cls_pc = "index"
    /\ cls_k < Len(entities_in)
    /\ NextRaises = "none"
    /\ LET span == FindValue(original_text, used_indices, CurCandidate, 0) IN
          /\ index' = span
          /\ used_indices' = UsedAfter(used_indices, span)
          /\ indices' = IndicesAfter(indices, CurEntry.key, CurEntry.value, cls_c, span)
    /\ IF cls_c + 1 < Len(ClsCandidates(CurEntry.value))
       THEN cls_c' = cls_c + 1 /\ cls_k' = cls_k
       ELSE cls_c' = 0 /\ cls_k' = cls_k + 1
    /\ UNCHANGED <<cls_pc, original_text, entities_in, levels, exc>>
    /\ UNCHANGED <<enc_vars, dec_vars, ext_vars>>

\* Lines 60-432: the anchors, the levels, the remark and the return.
ClsClassify ==
    /\ cls_pc = "index"
    /\ cls_k = Len(entities_in)
    /\ NextRaises = "none"
    /\ levels' = LevelRecord(entities_in, original_text, indices)
    /\ cls_pc' = "returned"
    /\ UNCHANGED <<original_text, entities_in, cls_k, cls_c, indices, used_indices,
                   index, exc>>
    /\ UNCHANGED <<enc_vars, dec_vars, ext_vars>>

\* Lines 434-451: an exception of the body reaches the except clause.
ClsExcept ==
    /\ cls_pc = "index"
    /\ NextRaises # "none"
    /\ exc' = NextRaises
    /\ IF HandlerCatches(NextRaises)
       THEN /\ levels' = ErrorRecord(original_text, NextRaises)
            /\ cls_pc' = "returned"
       ELSE /\ levels' = levels
            /\ cls_pc' = "raised"
    /\ UNCHANGED <<original_text, entities_in, cls_k, cls_c, indices, used_indices, index>>
    /\ UNCHANGED <<enc_vars, dec_vars, ext_vars>>

-----------------------------------------------------------------------------
(* Classifier: the whole call as a function of its arguments *)

\* Lines 44-58: the candidates of one value from number c on, each located
\* by find_value against the used offsets left by the ones before it.
RECURSIVE IndexCandidates(_, _, _, _, _)
IndexCandidates(addr, st, key, value, c) ==
    IF c = Len(ClsCandidates(value)) THEN st
    ELSE LET span == FindValue(addr, st.used, ClsCandidates(value)[c + 1], 0) IN
         IndexCandidates(addr,
                         [ind |-> IndicesAfter(st.ind, key, value, c, span),
                          used |-> UsedAfter(st.used, span)],
                         key, value, c + 1)

\* Lines 42-58: "for key, value in entities.items()".
RECURSIVE IndexEntries(_, _, _)
IndexEntries(addr, st, ents) ==
    IF ents = <<>> THEN st
    ELSE IndexEntries(addr,
                      IndexCandidates(addr, st, Head(ents).key, Head(ents).value, 0),
                      Tail(ents))

\* The exception the body raises on these arguments, "none" when it raises
\* none: line 43 on the first value that is None, line 30 on a text that is
\* None, line 426 on a text that is None when the mapping is empty.
RaisedBy(ents, addr) ==
    IF addr = None
    THEN IF ents = <<>> THEN "TypeError"
         ELSE IF Head(ents).value = None THEN "TypeError" ELSE "AttributeError"
    ELSE IF \E i \in DOMAIN ents : ents[i].value = None THEN "TypeError"
    ELSE "none"

\* Lines 12-451: the record the call returns.
classify_elements_to_11_levels(ents, addr) ==
    IF RaisedBy(ents, addr) # "none"
    THEN ErrorRecord(addr, RaisedBy(ents, addr))
    ELSE LevelRecord(ents, addr, IndexEntries(addr, [ind |-> <<>>, used |-> {}], ents).ind)

-----------------------------------------------------------------------------
(* Classifier properties *)

ClsReturnedLevels == cls_pc = "returned" /\ exc = "none"

\* Every span recorded in indices, as <<entry, position>> places.
RecordedPlaces ==
    UNION {{<<i, j>> : j \in DOMAIN indices[i].value} : i \in DOMAIN indices}

SpanAt(place) == indices[place[1]].value[place[2]]

\* The spans that make up the levels: the located spans of prov, city,
\* district and town for levels 1 to 4, the spans found by the searches
\* of levels 5 to 11.
LevelSpans ==
    LET a == Assign(indices, original_text) IN
    Eligible(indices, admin_keys, NoLower, NoUpper(original_text))
    \o a.l5.spans \o a.l6.spans \o a.l7.spans \o a.l8.spans
    \o a.l9.spans \o a.l10.spans \o a.l11.spans

\* The offsets of the characters put in remark, the whitespace trimmed
\* from its two ends counted with them: the offsets outside every located span.
RemarkOffsets ==
    {i \in 0..(Len(original_text) - 1) : i \notin UsedIndicesFinal(indices)}

\* C2: in every record returned, the offsets of the spans that make up
\* level1..level11 and the offsets of the characters put in remark
\* partition the offsets of the text: none is missing from both, none is
\* counted in two places.
C2_CoveragePartition ==
    ClsReturnedLevels =>
       /\ UNION {SpanRange(LevelSpans[k]) : k \in DOMAIN LevelSpans} \cup RemarkOffsets
             = 0..(Len(original_text) - 1)
       /\ \A k \in DOMAIN LevelSpans : SpanRange(LevelSpans[k]) \cap RemarkOffsets = {}
       /\ \A k, l \in DOMAIN LevelSpans :
             k # l => SpanRange(LevelSpans[k]) \cap SpanRange(LevelSpans[l]) = {}

\* C4: the call never raises to its caller; after an internal failure it
\* has returned a record with level1..level11 and remark empty, the text of
\* the call as original_text, and an error; a record returned without a
\* failure carries no error.
C4_NeverRaises ==
    /\ cls_pc \in {"index", "returned"}
    /\ exc # "none" =>
          /\ cls_pc = "returned"
          /\ \A i \in 1..11 : levels.level[i] = <<>>
          /\ levels.remark = <<>>
          /\ levels.original_text = original_text
          /\ levels.error # None /\ levels.error # <<>>
    /\ ClsReturnedLevels => levels.error = None

\* A value that is not a str failed the call after a first value was located.
C4_Witness ==
    /\ cls_pc = "returned"
    /\ exc = "TypeError"
    /\ cls_k = 1
    /\ index # NoSpan
    /\ entities_in[2].value = None
    /\ levels.error = <<"TypeError">>

\* A text that is None failed the call.
C4_WitnessNoText ==
    /\ cls_pc = "returned"
    /\ exc = "AttributeError"
    /\ original_text = None

\* C8: after any sequence of find_value calls the recorded spans are
\* pairwise non-overlapping and used_indices is the union of the spans.
C8_SpansDisjoint ==
    cls_pc \in {"index", "returned"} =>
       /\ \A p, q \in RecordedPlaces :
             p # q => SpanRange(SpanAt(p)) \cap SpanRange(SpanAt(q)) = {}
       /\ used_indices = UNION {SpanRange(SpanAt(p)) : p \in RecordedPlaces}

\* The second value was found at its first occurrence, which was used, and
\* recorded at its next one.
C8_Witness ==
    /\ cls_pc = "index"
    /\ original_text = <<"a", "a">>
    /\ Len(indices) = 2
    /\ indices[1].value = <<<<0, 1>>>>
    /\ indices[2].value = <<<<1, 2>>>>
    /\ used_indices = {0, 1}

\* The step from the current state is a call of find_value.
ClsCalls == cls_pc = "index" /\ <<cls_k, cls_c>>' # <<cls_k, cls_c>>

\* The occurrences of value in addr whose window is disjoint from used.
FreeOccurrences(addr, used, value) ==
    {q \in Occurrences(addr, value) : \A i \in used : i \notin q..(q + Len(value) - 1)}

Leftmost(S) == CHOOSE q \in S : \A r \in S : q <= r

\* C10 as stated: when the text holds an occurrence of the value whose
\* window is disjoint from used_indices, find_value returns the leftmost
\* such occurrence.
C10_LeftmostFreeOccurrence ==
    [][ClsCalls =>
          LET free == FreeOccurrences(original_text, used_indices, CurCandidate) IN
          free # {} => index' = <<Leftmost(free), Leftmost(free) + Len(CurCandidate)>>]_vars

\* The conflicting occurrences the search tries: the leftmost occurrence at
\* or after from, and after each conflicting one the leftmost occurrence at
\* or after its end.
RECURSIVE TriedConflicts(_, _, _, _)
TriedConflicts(addr, used, value, from) ==
    LET later == {q \in Occurrences(addr, value) : q >= from} IN
    IF later = {} \/ Leftmost(later) \in FreeOccurrences(addr, used, value)
    THEN {}
    ELSE {Leftmost(later)}
         \cup TriedConflicts(addr, used, value, Leftmost(later) + Len(value))

\* The free occurrences that start inside no tried conflicting window.
ReachableFree(addr, used, value) ==
    {q \in FreeOccurrences(addr, used, value) :
        \A p \in TriedConflicts(addr, used, value, 0) : ~(p < q /\ q < p + Len(value))}

\* C10: when the text holds an occurrence of the value whose window is
\* disjoint from used_indices and which starts inside the window of no
\* conflicting occurrence the search tried, find_value returns the
\* leftmost such occurrence; otherwise the value is dropped.
C10_LeftmostReachableFree ==
    [][ClsCalls =>
          LET free == ReachableFree(original_text, used_indices, CurCandidate) IN
          /\ free # {} => index' = <<Leftmost(free), Leftmost(free) + Len(CurCandidate)>>
          /\ free = {} => index' = NoSpan]_vars

\* A value was dropped though a free occurrence of it exists: the free
\* occurrence starts inside the conflicting window tried first.
C10_Witness ==
    /\ cls_pc = "index"
    /\ original_text = <<"a", "a", "a">>
    /\ cls_k = 2
    /\ entities_in[2].value = <<"a", "a">>
    /\ used_indices = {0}
    /\ index = NoSpan
    /\ FreeOccurrences(original_text, used_indices, <<"a", "a">>) = {1}

\* A value was found past a conflicting window.
C10_WitnessFound ==
    /\ cls_pc = "index"
    /\ original_text = <<"a", "a", "a">>
    /\ cls_k = 2
    /\ entities_in[1].value = <<"a">>
    /\ entities_in[2].value = <<"a">>
    /\ index = <<1, 2>>

\* The call, step by step, returns what the function of its arguments gives.
StepsAgreeWithFunction ==
    cls_pc = "returned" =>
       levels = classify_elements_to_11_levels(entities_in, original_text)

\* The mapping without its entry number k.
WithoutEntry(ents, k) == SubSeq(ents, 1, k - 1) \o SubSeq(ents, k + 1, Len(ents))

\* No candidate of the value of entry k occurs anywhere in the text.
OccursNowhere(k) ==
    /\ entities_in[k].value # None
    /\ \A c \in DOMAIN ClsCandidates(entities_in[k].value) :
          Find(original_text, ClsCandidates(entities_in[k].value)[c], 0) = -1

\* C12 as stated: a value of any category that does not occur in the text
\* is dropped; the record returned, error field included, is the record
\* returned for the mapping without that value.
C12_MissingValueDropped ==
    (cls_pc = "returned" /\ original_text # None) =>
       \A k \in DOMAIN entities_in :
          OccursNowhere(k) =>
             levels = classify_elements_to_11_levels(WithoutEntry(entities_in, k),
                                                     original_text)

\* The level that copies the raw value of an administrative category.
RawLevel(key) ==
    IF key = Key("prov") THEN 1
    ELSE IF key = Key("city") THEN 2
    ELSE IF key = Key("district") THEN 3
    ELSE IF key = Key("town") THEN 4
    ELSE 0

\* C12: a value that does not occur in the text gets no span; remark, the
\* error field and every level are those of the mapping without the value,
\* except that the raw value of prov, city, district or town is still
\* copied to its own level when the record carries no error.
C12_MissingValueGetsNoSpan ==
    (cls_pc = "returned" /\ original_text # None) =>
       \A k \in DOMAIN entities_in :
          OccursNowhere(k) =>
             LET r == classify_elements_to_11_levels(WithoutEntry(entities_in, k),
                                                     original_text)
                 raw == RawLevel(entities_in[k].key)
             IN  /\ levels.remark = r.remark
                 /\ levels.error = r.error
                 /\ levels.original_text = r.original_text
                 /\ \A l \in 1..11 : l # raw => levels.level[l] = r.level[l]
                 /\ (raw # 0 /\ levels.error = None)
                       => levels.level[raw] = entities_in[k].value
                 /\ (raw # 0 /\ levels.error # None)
                       => levels.level[raw] = r.level[raw]
                 /\ levels.error = None =>
                       ~(DictHas(indices, entities_in[k].key)
                           /\ DictGet(indices, entities_in[k].key) # <<>>)

\* A road value absent from the text ahead of a located poi value.
C12_Witness ==
    /\ ClsReturnedLevels
    /\ original_text = <<"a">>
    /\ entities_in = <<[key |-> Key("road"), value |-> <<"a", "a">>],
                       [key |-> Key("poi"), value |-> <<"a">>]>>
    /\ OccursNowhere(1)
    /\ levels.level[5] = <<>>
    /\ levels.level[7] = <<"a">>

\* C13: in every record returned without error, level1..level4 are the raw
\* values of prov, city, district and town, wherever the administrative
\* anchor lies; a missing city, district or town gives an empty level and
\* a missing prov gives the default province.
C13_RawAdminLevels ==
    ClsReturnedLevels =>
       /\ levels.level[1] = IF DictHas(entities_in, Key("prov"))
                            THEN DictGet(entities_in, Key("prov")) ELSE DefaultProv
       /\ \A l \in 2..4 :
             levels.level[l] = IF DictHas(entities_in, admin_keys[l])
                               THEN DictGet(entities_in, admin_keys[l]) ELSE <<>>

\* No prov, a city that is not located and a town that is the anchor.
C13_Witness ==
    /\ ClsReturnedLevels
    /\ original_text = <<"b", "a">>
    /\ DictKeys(entities_in) = {Key("town"), Key("city")}
    /\ entities_in[1].key = Key("town")
    /\ AdminMaxIndex(indices, original_text) = <<1, 2>>
    /\ ~DictHas(indices, Key("city"))
    /\ levels.level = <<DefaultProv, <<"a">>, <<>>, <<"a">>,
                        <<>>, <<>>, <<>>, <<>>, <<>>, <<>>, <<>>>>

\* The located spans of the categories of a family.
FamilySpans(keys) ==
    {SpanAt(place) : place \in {q \in RecordedPlaces : \E i \in DOMAIN keys :
                                                         indices[q[1]].key = keys[i]}}

\* C14: the POI anchor is a located span of the POI family with the
\* smallest start and the admin anchor a located span of the administrative
\* family with the largest start; each is absent exactly when its family
\* has no located span.  level7 shows the POI anchor.
C14_Anchors ==
    ClsReturnedLevels =>
       LET poi == PoiMinIndex(indices, original_text)
           admin == AdminMaxIndex(indices, original_text)
       IN  /\ IF FamilySpans(poi_keys) = {} THEN poi = NoSpan
              ELSE /\ poi \in FamilySpans(poi_keys)
                   /\ \A sp \in FamilySpans(poi_keys) : poi[1] <= sp[1]
                   /\ levels.level[7] = Strip(Slice(original_text, poi[1], poi[2]))
           /\ IF FamilySpans(admin_keys) = {} THEN admin = NoSpan
              ELSE /\ admin \in FamilySpans(admin_keys)
                   /\ \A sp \in FamilySpans(admin_keys) : admin[1] >= sp[1]

\* Two POI-family spans and two administrative spans, the anchors being the
\* spans of the categories that lines 61 and 70 list last.
C14_Witness ==
    /\ ClsReturnedLevels
    /\ entities_in = <<[key |-> Key("community"), value |-> <<"a">>],
                       [key |-> Key("poi"), value |-> <<"a">>],
                       [key |-> Key("prov"), value |-> <<"a">>]>>
    /\ original_text = <<"a", "b", "a", "a">>
    /\ FamilySpans(poi_keys) = {<<0, 1>>, <<2, 3>>}
    /\ PoiMinIndex(indices, original_text) = <<0, 1>>
    /\ AdminMaxIndex(indices, original_text) = <<3, 4>>

\* The search of level n (5..11) in the assignment a.
LevelSel(a, n) ==
    CASE n = 5 -> a.l5 [] n = 6 -> a.l6 [] n = 7 -> a.l7 [] n = 8 -> a.l8
      [] n = 9 -> a.l9 [] n = 10 -> a.l10 [] n = 11 -> a.l11

SpanSet(spans) == {spans[i] : i \in DOMAIN spans}

\* The largest end among a set of spans, 0 when there is none.
MaxEnd(spans) ==
    IF spans = {} THEN 0 ELSE CHOOSE e \in {sp[2] : sp \in spans} :
                                 \A sp \in spans : sp[2] <= e

\* The anchors that exist.
Anchors ==
    {PoiMinIndex(indices, original_text), AdminMaxIndex(indices, original_text)}
    \ {NoSpan}

\* The spans assigned to the levels 5..(n - 1).
AssignedBefore(a, n) == UNION {SpanSet(LevelSel(a, m).spans) : m \in 5..(n - 1)}

\* C15 as stated: every span merged into level 8, 9, 10 or 11 starts at or
\* after the largest end among the admin anchor, the POI anchor and all the
\* spans assigned to earlier levels.
C15_AfterLatestBoundary ==
    ClsReturnedLevels =>
       LET a == Assign(indices, original_text) IN
       \A n \in 8..11 : \A sp \in SpanSet(LevelSel(a, n).spans) :
          sp[1] >= MaxEnd(Anchors \cup AssignedBefore(a, n))

\* C15: that bound holds for levels 10 and 11 in both branches and for
\* levels 8 and 9 when no POI-family span is located.  When one is, the
\* spans of level 8 start at or after the end of the POI anchor and those
\* of level 9 at or after the largest end among the POI anchor and the
\* spans of level 8, wherever the admin anchor lies.
C15_AfterBranchBoundary ==
    ClsReturnedLevels =>
       LET a == Assign(indices, original_text)
           poi == PoiMinIndex(indices, original_text)
           Bound(n) == IF poi # NoSpan /\ n \in {8, 9}
                       THEN MaxEnd({poi} \cup UNION {SpanSet(LevelSel(a, m).spans) :
                                                        m \in 8..(n - 1)})
                       ELSE MaxEnd(Anchors \cup AssignedBefore(a, n))
       IN  \A n \in 8..11 : \A sp \in SpanSet(LevelSel(a, n).spans) :
              sp[1] >= Bound(n)

\* Two floorno-free levels before level 10: the POI anchor, then the admin
\* anchor, then a floorno span that level 10 takes after the admin anchor;
\* and the same spans with floorno between the anchors, which level 10
\* leaves out.
C15_Witness ==
    /\ ClsReturnedLevels
    /\ original_text = <<"a", "a", "a">>
    /\ entities_in = <<[key |-> Key("poi"), value |-> <<"a">>],
                       [key |-> Key("prov"), value |-> <<"a">>],
                       [key |-> Key("floorno"), value |-> <<"a">>]>>
    /\ Assign(indices, original_text).l10.spans = <<<<2, 3>>>>
    /\ levels.level[10] = <<"a">>

C15_WitnessLeftOut ==
    /\ ClsReturnedLevels
    /\ original_text = <<"a", "a", "a">>
    /\ entities_in = <<[key |-> Key("poi"), value |-> <<"a">>],
                       [key |-> Key("floorno"), value |-> <<"a">>],
                       [key |-> Key("prov"), value |-> <<"a">>]>>
    /\ DictGet(indices, Key("floorno")) = <<<<1, 2>>>>
    /\ levels.level[10] = <<>>

\* The smallest start among a non-empty set of spans.
MinStart(spans) ==
    CHOOSE b \in {sp[1] : sp \in spans} : \A sp \in spans : b <= sp[1]

\* C16: whenever level 5, 6, 8, 9, 10 or 11 has eligible located spans in
\* its window, its text is the slice of the text from the smallest start to
\* the largest end over all of them, trimmed, intervening characters
\* included.
C16_MergedSlice ==
    ClsReturnedLevels =>
       LET a == Assign(indices, original_text) IN
       \A n \in {5, 6, 8, 9, 10, 11} :
          LET spans == SpanSet(LevelSel(a, n).spans) IN
          spans # {} =>
             levels.level[n] = Strip(Slice(original_text, MinStart(spans), MaxEnd(spans)))

\* The slice of the text from the smallest start to the largest end over a
\* set of spans, trimmed as every level text is; empty for no span.
MergedSlice(spans) ==
    IF spans = {} THEN <<>>
    ELSE Strip(Slice(original_text, MinStart(spans), MaxEnd(spans)))

\* C17: when a POI-family span is located, level7 is the text of the POI
\* anchor's own span and level8 is the merged slice over exactly the
\* located spans of poi, subpoi, road, roadno, direction, community,
\* devzone, village_group and houseno that start at or after the POI
\* anchor's end.
C17_PoiLevels ==
    LET poi == PoiMinIndex(indices, original_text) IN
    (ClsReturnedLevels /\ poi # NoSpan) =>
       /\ levels.level[7] = MergedSlice({poi})
       /\ levels.level[8] =
             MergedSlice({sp \in FamilySpans(additional_poi_keys) : sp[1] >= poi[2]})

C18_WitnessHouseno ==
    /\ ClsReturnedLevels
    /\ original_text = <<"a", "a", "a">>
    /\ entities_in = <<[key |-> Key("city"), value |-> <<"a">>],
                       [key |-> Key("road"), value |-> <<"a">>],
                       [key |-> Key("houseno"), value |-> <<"a">>]>>
    /\ levels.level[5] = <<"a">>
    /\ levels.level[7] = <<>>
    /\ levels.level[8] = <<"a">>

\* The offsets claimed by the spans that make up the levels.
ClaimedOffsets == UNION {SpanRange(sp) : sp \in SpanSet(LevelSpans)}

\* C19: remark is the concatenation, in text order, of exactly the
\* characters of the text whose offset no span of level1..level11 claims,
\* trimmed as the code trims it.
C19_RemarkIsUnclaimed ==
    ClsReturnedLevels =>
       levels.remark = Strip(RemainingParts(original_text, ClaimedOffsets,
                                            Len(original_text)))

\* Every ordering of the entries of a mapping.
Orderings(d) ==
    {[i \in DOMAIN d |-> d[f[i]]] :
        f \in {g \in [DOMAIN d -> DOMAIN d] : \A i, j \in DOMAIN d : i # j => g[i] # g[j]}}

\* C20: the record the classifier returns without error is the record it
\* returns for every other ordering of the entries of the mapping.
C20_OrderIrrelevant ==
    ClsReturnedLevels =>
       \A d \in Orderings(entities_in) :
          classify_elements_to_11_levels(d, original_text) = levels

\* C20 for the encoder: the tokens and ner_tags returned are those returned
\* for every other ordering of the entries of the mapping.
C20_EncoderOrderIrrelevant ==
    EncReturned =>
       \A d \in Orderings(address_components) :
          convert_address_to_token(d, original_address)
             = [tokens |-> tokens, ner_tags |-> ner_tags]

\* The encoder, step by step, returns what the function of its arguments gives.
EncStepsAgreeWithFunction ==
    EncReturned =>
       convert_address_to_token(address_components, original_address)
          = [tokens |-> tokens, ner_tags |-> ner_tags]

\* The spans the encoder's location step recorded are non-empty and lie
\* inside the text.
EncSpansInRange ==
    \A k \in DOMAIN entity_positions :
       /\ 0 <= entity_positions[k].start
       /\ entity_positions[k].start < entity_positions[k].end
       /\ entity_positions[k].end <= Len(original_address)

\* The same for the spans the classifier's re-location step recorded.
ClsSpansInRange ==
    \A k \in DOMAIN indices :
       \A n \in DOMAIN indices[k].value :
          LET span == indices[k].value[n] IN
          0 <= span[1] /\ span[1] < span[2] /\ span[2] <= Len(original_text)

\* C25: every span recorded by the encoder's location step or by the
\* classifier's re-location step satisfies 0 <= start < end <= len(Text).
C25_SpansNonEmptyInRange == EncSpansInRange /\ ClsSpansInRange

\* The categories whose spans or values level n is filled from.
LevelKeys(n) ==
    CASE n = 1 -> <<Key("prov")>>
      [] n = 2 -> <<Key("city")>>
      [] n = 3 -> <<Key("district")>>
      [] n = 4 -> <<Key("town")>>
      [] n = 5 -> road_direction_keys
      [] n = 6 -> roadno_keys
      [] n = 7 -> poi_keys
      [] n = 8 -> additional_poi_keys
      [] n = 9 -> cellno_keys
      [] n = 10 -> floorno_keys
      [] n = 11 -> roomno_keys

\* The mappings that can be re-derived from the level fields of a record:
\* every non-empty level gives one entry, its text under one of the
\* categories of the level, no category twice, the entries in any order.
ReDerivations(rec) ==
    LET filled == {n \in 1..11 : rec.level[n] # <<>>}
        count == Cardinality(filled)
        orders == {o \in [1..count -> filled] : \A i, j \in 1..count : i # j => o[i] # o[j]}
        choices == {f \in [filled -> UNION {{LevelKeys(n)[k] : k \in DOMAIN LevelKeys(n)} :
                                                n \in 1..11}] :
                       /\ \A n \in filled : \E k \in DOMAIN LevelKeys(n) : f[n] = LevelKeys(n)[k]
                       /\ \A n, m \in filled : n # m => f[n] # f[m]}
    IN  {[i \in 1..count |-> [key |-> f[o[i]], value |-> rec.level[o[i]]]] :
            o \in orders, f \in choices}

\* C26: a record returned without error is reproduced, in its level1..level11
\* fields, by the classifier run on the same text with a mapping
\* re-derived from those fields.
C26_Idempotent ==
    (ClsReturnedLevels /\ levels.level[1] # <<>>) =>
       \E d \in ReDerivations(levels) :
          classify_elements_to_11_levels(d, original_text).level = levels.level

\* The selection of level n (5..11) in the record returned.
SelOfLevel(n) ==
    LET a == Assign(indices, original_text) IN
    CASE n = 5 -> a.l5 [] n = 6 -> a.l6 [] n = 7 -> a.l7 [] n = 8 -> a.l8
      [] n = 9 -> a.l9 [] n = 10 -> a.l10 [] n = 11 -> a.l11

\* The slice of the text assigned to level n, as <<start, end>>.
SliceOfLevel(n) == <<SelOfLevel(n).min[1], SelOfLevel(n).max[2]>>

\* C27: of two non-empty levels i < j among 5..11, the slice of level i
\* ends at or before the start of the slice of level j.
C27_NeverBackward ==
    ClsReturnedLevels =>
       \A i, j \in 5..11 :
          (i < j /\ levels.level[i] # <<>> /\ levels.level[j] # <<>>)
             => SliceOfLevel(i)[2] <= SliceOfLevel(j)[1]

\* A record with a road, a road number and a POI level.
C27_Witness ==
    /\ ClsReturnedLevels
    /\ levels.level[5] # <<>>
    /\ levels.level[6] # <<>>
    /\ levels.level[7] # <<>>
    /\ SliceOfLevel(5)[2] <= SliceOfLevel(6)[1]
    /\ SliceOfLevel(6)[2] <= SliceOfLevel(7)[1]

\* The located spans level n (5 or 6) may be built from when a POI-family
\* span is located: those of road and direction (level5) or roadno (level6)
\* that start before the POI anchor's start and, when there is an admin
\* anchor, at or after its end.
RoadSpansAllowed(n, poi, admin) ==
    {sp \in FamilySpans(IF n = 5 THEN road_direction_keys ELSE roadno_keys) :
        /\ sp[1] < poi[1]
        /\ admin # NoSpan => sp[1] >= admin[2]}

\* C28: when a POI-family span is located, the spans merged into level5 and
\* level6 are among the allowed ones, a non-empty level text is the slice
\* from the start of one of them to the end of one of them, and the slice
\* ends at or before the POI anchor's start.
C28_RoadBeforePoi ==
    LET poi == PoiMinIndex(indices, original_text)
        admin == AdminMaxIndex(indices, original_text)
        a == Assign(indices, original_text)
    IN  (ClsReturnedLevels /\ poi # NoSpan) =>
           \A n \in {5, 6} :
              LET spans == SpanSet(LevelSel(a, n).spans) IN
              /\ spans \subseteq RoadSpansAllowed(n, poi, admin)
              /\ levels.level[n] # <<>> =>
                    \E from, to \in RoadSpansAllowed(n, poi, admin) :
                       levels.level[n] = Strip(Slice(original_text, from[1], to[2]))
              /\ spans # {} => MaxEnd(spans) <= poi[1]

\* A POI anchor with a road span ahead of it in level5 and a road number
\* span after it that level6 leaves out.
C28_Witness ==
    LET poi == PoiMinIndex(indices, original_text) IN
    /\ ClsReturnedLevels
    /\ poi # NoSpan
    /\ levels.level[5] # <<>>
    /\ levels.level[6] = <<>>
    /\ \E sp \in FamilySpans(roadno_keys) : sp[1] >= poi[2]

-----------------------------------------------------------------------------
(* Calls in progress at the same time *)

\* Every name the three functions assign is a local of the call: "tokens =
\* []", "entity_positions = []", "entities = {}", "indices = {}",
\* "used_indices = set()" create a new object per call, and find_value is a
\* closure over the used_indices of its own call.  A call is a frame: the
\* function, its arguments, its locals, and its result once it has returned.
MaxCalls == 2

ConcClsArgs ==
    {<<ents, text>> :
        ents \in {<<>>,
                  <<[key |-> Key("road"), value |-> <<"a">>]>>,
                  <<[key |-> Key("poi"), value |-> <<"a">>],
                    [key |-> Key("road"), value |-> <<"a">>]>>},
        text \in {<<"a">>, <<"a", "a">>}}

ConcDecArgs ==
    {<<toks, tags>> :
        toks \in {<<<<"a">>, <<"b">>>>},
        tags \in [1..2 -> {TagO, FormatTag("B", Key("road")), FormatTag("E", Key("road"))}]}

ConcEncArgs ==
    {<<comps, text>> :
        comps \in {<<[key |-> Key("road"), value |-> <<"a">>]>>,
                   <<[key |-> Key("road"), value |-> <<"a", "b">>],
                     [key |-> Key("poi"), value |-> <<"b">>]>>},
        text \in {<<"a", "b">>, <<"b", "a">>}}

\* The locals of a call before its first statement.
FreshLocals ==
    [indices |-> <<>>, used_indices |-> {}, cls_k |-> 0, cls_c |-> 0,
     entities |-> <<>>, current_entity |-> None, current_tokens |-> <<>>, dec_i |-> 0,
     located |-> FALSE, entity_positions |-> <<>>, tokens |-> <<>>, ner_tags |-> <<>>,
     current_pos |-> 0, enc_j |-> 0]

NewFrame(fn, args) ==
    [fn |-> fn, args |-> args, pc |-> "run", locals |-> FreshLocals, result |-> None]

NewFrames ==
    {NewFrame("cls", a) : a \in ConcClsArgs}
    \cup {NewFrame("dec", a) : a \in ConcDecArgs}
    \cup {NewFrame("enc", a) : a \in ConcEncArgs}

\* Line 26, as it would be if used_indices were one set of the module that
\* every call reads.
UsedOfModule(cs, i) == UNION {cs[j].locals.used_indices : j \in DOMAIN cs}

\* Line 26: the used_indices that call i reads is the set of its own frame.
UsedOf(cs, i) == cs[i].locals.used_indices

\* Lines 42-58 and 60-432 in a frame: one find_value, or the return.
ClsFrameStep(fr, used) ==
    LET ents == fr.args[1]
        addr == fr.args[2]
        l == fr.locals
    IN  IF l.cls_k < Len(ents)
        THEN LET entry == ents[l.cls_k + 1]
                 cands == ClsCandidates(entry.value)
                 span == FindValue(addr, used, cands[l.cls_c + 1], 0)
                 last == l.cls_c + 1 = Len(cands)
             IN  [fr EXCEPT
                    !.locals.indices = IndicesAfter(l.indices, entry.key, entry.value,
                                                    l.cls_c, span),
                    !.locals.used_indices = UsedAfter(l.used_indices, span),
                    !.locals.cls_c = IF last THEN 0 ELSE l.cls_c + 1,
                    !.locals.cls_k = IF last THEN l.cls_k + 1 ELSE l.cls_k]
        ELSE [fr EXCEPT !.pc = "done", !.result = LevelRecord(ents, addr, l.indices)]

\* Lines 45-101 in a frame: one loop iteration, or the last flush and the return.
DecFrameStep(fr) ==
    LET toks == fr.args[1]
        tags == fr.args[2]
        l == fr.locals
        st == [entities |-> l.entities, current_entity |-> l.current_entity,
               current_tokens |-> l.current_tokens]
    IN  IF l.dec_i < ZipLen(toks, tags)
        THEN LET nx == DecStep(st, toks[l.dec_i + 1], tags[l.dec_i + 1]) IN
             [fr EXCEPT !.locals.entities = nx.entities,
                        !.locals.current_entity = nx.current_entity,
                        !.locals.current_tokens = nx.current_tokens,
                        !.locals.dec_i = l.dec_i + 1]
        ELSE [fr EXCEPT !.pc = "done", !.result = Flush(st)]

\* Lines 27-98 in a frame: the location, one emission, or the return.
EncFrameStep(fr) ==
    LET comps == fr.args[1]
        addr == fr.args[2]
        l == fr.locals
    IN  IF ~l.located
        THEN [fr EXCEPT !.locals.located = TRUE,
                        !.locals.entity_positions =
                            SortByStart(LocateComponents(comps, addr))]
        ELSE IF l.enc_j < Len(l.entity_positions)
        THEN LET entity == l.entity_positions[l.enc_j + 1]
                 gap_text == GapText(addr, l.current_pos, entity)
             IN  [fr EXCEPT
                    !.locals.tokens = l.tokens \o CharTokens(gap_text)
                                         \o CharTokens(entity.text),
                    !.locals.ner_tags = l.ner_tags \o OTags(gap_text) \o EntityTags(entity),
                    !.locals.current_pos = entity.end,
                    !.locals.enc_j = l.enc_j + 1]
        ELSE LET remaining_text == RemainingText(addr, l.current_pos) IN
             [fr EXCEPT !.pc = "done",
                        !.result = [tokens |-> l.tokens \o CharTokens(remaining_text),
                                    ner_tags |-> l.ner_tags \o OTags(remaining_text)]]

FrameStep(cs, i) ==
    CASE cs[i].fn = "cls" -> ClsFrameStep(cs[i], UsedOf(cs, i))
      [] cs[i].fn = "dec" -> DecFrameStep(cs[i])
      [] cs[i].fn = "enc" -> EncFrameStep(cs[i])

ConcIdle == calls = <<>>

ConcInit == calls \in [1..MaxCalls -> NewFrames]

\* One call runs its next statement; the others stand still.
ConcStep ==
    /\ \E i \in DOMAIN calls :
          /\ calls[i].pc = "run"
          /\ calls' = [calls EXCEPT ![i] = FrameStep(calls, i)]
    /\ UNCHANGED <<enc_vars, dec_vars, cls_vars, batch_vars, hand_vars, tag_vars>>

\* A thread whose call has returned makes its next call.
ConcCall ==
    /\ \E i \in DOMAIN calls :
          /\ calls[i].pc = "done"
          /\ \E fr \in NewFrames : calls' = [calls EXCEPT ![i] = fr]
    /\ UNCHANGED <<enc_vars, dec_vars, cls_vars, batch_vars, hand_vars, tag_vars>>

\* What the function returns for these arguments when it runs alone.
Alone(fn, args) ==
    CASE fn = "cls" -> classify_elements_to_11_levels(args[1], args[2])
      [] fn = "dec" -> extract_entities_from_tokens(args[1], args[2])
      [] fn = "enc" -> convert_address_to_token(args[1], args[2])

\* C21: calls running at the same time share no mutable state: every call
\* starts with empty used_indices and accumulators, returns what it
\* returns when it runs alone, and its arguments are never changed while it
\* runs.
C21_CallsIsolated ==
    /\ [](\A i \in DOMAIN calls :
             /\ calls[i].pc = "done" => calls[i].result = Alone(calls[i].fn, calls[i].args)
             /\ calls[i].pc = "run" => calls[i].result = None)
    /\ [][\A i \in DOMAIN calls :
             /\ calls[i].pc = "run" => calls'[i].args = calls[i].args
             /\ calls[i].pc = "done" /\ calls'[i].pc = "run"
                   => calls'[i].locals = FreshLocals]_vars

\* A classifier call that has marked offset 0 used, short of returning,
\* while another classifier call on the same text has returned the level it
\* returns alone.
C21_Witness ==
    /\ DOMAIN calls = 1..MaxCalls
    /\ calls[1].fn = "cls" /\ calls[1].pc = "run"
    /\ calls[1].locals.used_indices = {0}
    /\ calls[2].fn = "cls" /\ calls[2].pc = "done"
    /\ calls[2].args = calls[1].args
    /\ calls[2].args[2] = <<"a">>
    /\ calls[2].result.level[5] = <<"a">>

-----------------------------------------------------------------------------
(* Decoder: format_address *)

\* separator.join(parts)
RECURSIVE JoinWith(_, _)
JoinWith(separator, parts) ==
    IF parts = <<>> THEN <<>>
    ELSE IF Len(parts) = 1 THEN parts[1]
    ELSE parts[1] \o separator \o JoinWith(separator, Tail(parts))

\* Lines 125-129 of convert_tokens_to_entities.py.
priority_order ==
    <<Key("prov"), Key("city"), Key("district"), Key("town"), Key("community"),
      Key("devzone"), Key("road"), Key("roadno"), Key("intersection"), Key("poi"),
      Key("subpoi"), Key("houseno"), Key("cellno"), Key("floorno"), Key("roomno"),
      Key("assist"), Key("distance")>>

InPriorityOrder(entity_type) == \E i \in DOMAIN priority_order : priority_order[i] = entity_type

\* Lines 132-137: the categories of priority_order that were decoded, in
\* that order, each with its values joined by ', '.
RECURSIVE FormatPriority(_, _, _)
FormatPriority(ents, out, n) ==
    IF n > Len(priority_order) THEN out
    ELSE FormatPriority(ents,
                        IF DictHas(ents, priority_order[n])
                        THEN DictSet(out, priority_order[n],
                                     JoinWith(<<Comma, Space>>, DictGet(ents, priority_order[n])))
                        ELSE out,
                        n + 1)

\* Lines 140-144: the other decoded categories, in the decoder's order.
RECURSIVE FormatOthers(_, _, _)
FormatOthers(ents, out, n) ==
    IF n > Len(ents) THEN out
    ELSE FormatOthers(ents,
                      IF ~InPriorityOrder(ents[n].key)
                      THEN DictSet(out, ents[n].key, JoinWith(<<Comma, Space>>, ents[n].value))
                      ELSE out,
                      n + 1)

\* Lines 121-146: the flat mapping of the decoded entities.
FormatEntities(ents) == FormatOthers(ents, FormatPriority(ents, <<>>, 1), 1)

\* Lines 103-148: format_address on tokens, ner_tags and text.
format_address(toks, tags, text) ==
    [original_text |-> text,
     entities |-> FormatEntities(extract_entities_from_tokens(toks, tags))]

\* The characters a tagged sequence is made of here: a letter, the comma
\* and the space.
HandTokens == {<<"a">>, <<Comma>>, <<Space>>}

HandIdle == formatted = <<>>

\* format_address called on a tagged sequence: the decoder starts.
HandInit ==
    /\ \E n \in 0..MaxSeqLen :
          /\ dec_in_tokens \in [1..n -> HandTokens]
          /\ dec_in_tags \in [1..n -> DecTags]
    /\ dec_pc = "loop"
    /\ dec_i = 0
    /\ entities = <<>>
    /\ current_entity = None
    /\ current_tokens = <<>>
    /\ formatted = <<>>

\* Lines 121-148 of format_address, after the decoder has returned.
DecFormat ==
    /\ dec_pc = "done"
    /\ formatted' = FormatEntities(entities)
    /\ dec_pc' = "formatted"
    /\ UNCHANGED <<dec_in_tokens, dec_in_tags, dec_i, entities, current_entity,
                   current_tokens>>
    /\ UNCHANGED <<enc_vars, cls_vars, conc_vars, batch_vars, tag_vars>>

\* C29: for every decoded category the flat mapping has an entry, and the
\* candidates the classifier takes from that entry (split on ',' and
\* trimmed) are the decoder's values of the category, in the same order.
C29_HandOff ==
    dec_pc = "formatted" =>
       \A c \in DictKeys(entities) :
          /\ DictHas(formatted, c)
          /\ ClsCandidates(DictGet(formatted, c)) = DictGet(entities, c)

\* Every decoded category has an entry in the flat mapping, and no other.
C29_CategoriesKept == dec_pc = "formatted" => DictKeys(formatted) = DictKeys(entities)


-----------------------------------------------------------------------------
(* Batch converters *)

MaxLines == 3

\* A parsed JSON object: the keys it has and their values.
EmptyObject ==
    [kind |-> "dict", has |-> {}, address |-> <<>>, original_text |-> <<>>, text |-> <<>>,
     entities |-> <<>>, tokens |-> <<>>, ner_tags |-> <<>>]

With(data, k, v) == [data EXCEPT !.has = @ \cup {k}, ![k] = v]

\* key in data, data[key] and data.get(key, default)
Has(data, k) == k \in data.has

Get(data, k) == data[k]

GetOr(data, k, default) == IF Has(data, k) THEN data[k] ELSE default

\* A parsed JSON value that is no object.
NotDict == [EmptyObject EXCEPT !.kind = "list"]

\* A line of the input file, by what strip() and json.loads make of it: a
\* blank line, a line that is not JSON, or the value parsed.
Blank == [text |-> "blank", data |-> EmptyObject]

Malformed == [text |-> "malformed", data |-> EmptyObject]

Json(data) == [text |-> "json", data |-> data]

RoadA == <<[key |-> Key("road"), value |-> <<"a">>]>>

BatchLines(fn) ==
    {Blank, Malformed, Json(NotDict)}
    \cup
    CASE fn = "batch_convert_entity_to_token" ->
            {Json(With(EmptyObject, "address", <<"a", "b">>)),
             Json(With(With(EmptyObject, "address", None), "entities", RoadA)),
             Json(With(With(EmptyObject, "address", <<"a", "b">>), "entities", RoadA)),
             Json(With(With(EmptyObject, "address", <<"b", "a">>), "entities", RoadA))}
      [] fn = "convert_formatted_to_11_levels" ->
            {Json(EmptyObject),
             Json(With(With(EmptyObject, "original_text", None), "entities", RoadA)),
             Json(With(With(EmptyObject, "original_text", <<"a", "b">>), "entities", RoadA)),
             Json(With(With(EmptyObject, "original_text", <<"b", "a">>), "entities", RoadA))}
      [] fn = "convert_inference_results" ->
            {Json(EmptyObject),
             Json(With(With(EmptyObject, "tokens", <<<<"a">>>>), "ner_tags", <<None>>)),
             Json(With(With(With(EmptyObject, "tokens", <<<<"a">>, <<"b">>>>),
                            "ner_tags", <<FormatTag("S", Key("road")), TagO>>),
                       "text", <<"a", "b">>)),
             Json(With(With(With(EmptyObject, "tokens", <<<<"b">>>>),
                            "ner_tags", <<FormatTag("S", Key("poi"))>>),
                       "text", <<"b">>))}

BatchFunctions ==
    {"batch_convert_entity_to_token", "convert_formatted_to_11_levels",
     "convert_inference_results"}

\* The exception the body of the try raises on a line, "none" when the
\* line is processed to the end of the body.
LineRaises(fn, line) ==
    IF line.text # "json" THEN "JSONDecodeError"
    ELSE IF line.data.kind # "dict"
    THEN IF fn = "batch_convert_entity_to_token" THEN "TypeError" ELSE "AttributeError"
    ELSE CASE fn = "batch_convert_entity_to_token" ->
                 IF ~Has(line.data, "address") \/ ~Has(line.data, "entities")
                 THEN "KeyError"
                 ELSE IF Get(line.data, "address") = None THEN "TypeError"
                 ELSE "none"
           [] fn = "convert_formatted_to_11_levels" -> "none"
           [] fn = "convert_inference_results" ->
                 LET toks == GetOr(line.data, "tokens", <<>>)
                     tags == GetOr(line.data, "ner_tags", <<>>)
                 IN  IF \E i \in 1..ZipLen(toks, tags) : tags[i] = None
                     THEN "AttributeError" ELSE "none"

\* The record the body appends to results for a line it processes to the end.
LineRecord(fn, line) ==
    CASE fn = "batch_convert_entity_to_token" ->
            LET address == Get(line.data, "address")
                r == convert_address_to_token(Get(line.data, "entities"), address)
            IN  [tokens |-> r.tokens, ner_tags |-> r.ner_tags, text |-> address]
      [] fn = "convert_formatted_to_11_levels" ->
            classify_elements_to_11_levels(GetOr(line.data, "entities", <<>>),
                                           GetOr(line.data, "original_text", <<>>))
      [] fn = "convert_inference_results" ->
            format_address(GetOr(line.data, "tokens", <<>>),
                           GetOr(line.data, "ner_tags", <<>>),
                           GetOr(line.data, "text", <<>>))

\* "if not line: continue" ahead of the try, in the two converters that have it.
SkipsBlank(fn) == fn # "convert_inference_results"

\* "except json.JSONDecodeError" and "except Exception" of the loop body.
BatchCatches(e) == e \in {"JSONDecodeError", "KeyError", "TypeError", "AttributeError"}

\* os.makedirs(os.path.dirname(output_file), exist_ok=True) raises
\* FileNotFoundError when output_file has no directory part.
MakedirsRaises(fn, out_dir) == fn = "convert_inference_results" /\ ~out_dir

NoFile == <<"no file">>

BatchIdle ==
    /\ batch_pc = "idle"
    /\ batch_fn = "none"
    /\ batch_lines = <<>>
    /\ batch_out_dir = TRUE
    /\ batch_i = 0
    /\ results = <<>>
    /\ output = NoFile

BatchInit ==
    /\ batch_pc = "read"
    /\ batch_fn \in BatchFunctions
    /\ batch_lines \in SeqsUpTo(BatchLines(batch_fn), MaxLines)
    /\ batch_out_dir \in BOOLEAN
    /\ batch_i = 0
    /\ results = <<>>
    /\ output = NoFile

\* One iteration of "for line_num, line in enumerate(f, 1)".
BatchRead ==
    /\ batch_pc = "read"
    /\ batch_i < Len(batch_lines)
    /\ LET line == batch_lines[batch_i + 1]
           e == LineRaises(batch_fn, line)
       IN  IF line = Blank /\ SkipsBlank(batch_fn)
           THEN results' = results /\ batch_pc' = batch_pc
           ELSE IF e = "none"
           THEN results' = Append(results, LineRecord(batch_fn, line)) /\ batch_pc' = batch_pc
           ELSE IF BatchCatches(e)
           THEN results' = results /\ batch_pc' = batch_pc
           ELSE results' = results /\ batch_pc' = "raised"
    /\ batch_i' = batch_i + 1
    /\ UNCHANGED <<batch_fn, batch_lines, batch_out_dir, output>>
    /\ UNCHANGED <<enc_vars, dec_vars, cls_vars, conc_vars, hand_vars, tag_vars>>

\* After the loop: the output file gets one line per record of results.
BatchWrite ==
    /\ batch_pc = "read"
    /\ batch_i = Len(batch_lines)
    /\ IF MakedirsRaises(batch_fn, batch_out_dir)
       THEN output' = output /\ batch_pc' = "raised"
       ELSE output' = results /\ batch_pc' = "done"
    /\ UNCHANGED <<batch_fn, batch_lines, batch_out_dir, batch_i, results>>
    /\ UNCHANGED <<enc_vars, dec_vars, cls_vars, conc_vars, hand_vars, tag_vars>>

\* The records of the lines that are processed without an exception, in
\* input order.
RECURSIVE ProcessedLines(_, _)
ProcessedLines(fn, lines) ==
    IF lines = <<>> THEN <<>>
    ELSE LET line == lines[Len(lines)]
             before == ProcessedLines(fn, SubSeq(lines, 1, Len(lines) - 1))
         IN  IF LineRaises(fn, line) = "none"
             THEN Append(before, LineRecord(fn, line)) ELSE before

\* C22: in every batch converter no line aborts the batch; every run ends
\* with an output file that holds one record per line processed without an
\* exception, in input order.
C22_BatchSkipsBadLines ==
    /\ batch_pc # "raised"
    /\ batch_pc = "read" =>
          results = ProcessedLines(batch_fn, SubSeq(batch_lines, 1, batch_i))
    /\ batch_pc = "done" => output = ProcessedLines(batch_fn, batch_lines)

\* The same for the runs whose output path has a directory part.
C22_WithOutputDirectory == batch_out_dir => C22_BatchSkipsBadLines

-----------------------------------------------------------------------------
(* Batch tagging with a progress file *)

MaxAddresses == 2

MaxRuns == 3

\* A file: whether it exists and what it holds.  The output file holds
\* result lines; the progress file holds the text of a number, or nothing
\* (value -1) between its opening with 'w' and its closing.
NoOutput == [exists |-> FALSE, lines |-> <<>>]

NoProgress == [exists |-> FALSE, value |-> 0]

EmptyProgress == [exists |-> TRUE, value |-> -1]

NoResult == [address |-> "none", success |-> FALSE]

\* Lines 65-114: the results tag_single_address can return for an address.
TagResults(address) == {[address |-> address, success |-> ok] : ok \in BOOLEAN}

TagIdle ==
    /\ tag_pc = "idle"
    /\ addresses = <<>>
    /\ output_file = NoOutput
    /\ progress_file = NoProgress
    /\ start_index = 0
    /\ current_index = 0
    /\ result = NoResult
    /\ runs = 0

\* The first call of batch_tag_addresses, neither file existing.
TagInit ==
    /\ tag_pc = "start"
    /\ addresses \in SeqsUpTo({"x", "y"}, MaxAddresses)
    /\ output_file = NoOutput
    /\ progress_file = NoProgress
    /\ start_index = 0
    /\ current_index = 0
    /\ result = NoResult
    /\ runs = 1

\* Lines 159-163: start_index from the progress file; int('') raises.
TagReadProgress ==
    /\ tag_pc = "start"
    /\ IF progress_file.exists
       THEN IF progress_file.value = -1
            THEN tag_pc' = "raised" /\ start_index' = start_index
            ELSE tag_pc' = "open" /\ start_index' = progress_file.value
       ELSE tag_pc' = "open" /\ start_index' = 0
    /\ UNCHANGED <<addresses, output_file, progress_file, current_index, result, runs>>
    /\ UNCHANGED <<enc_vars, dec_vars, cls_vars, conc_vars, batch_vars, hand_vars>>

\* Lines 166-167: the output file opened with 'a' or 'w'.
TagOpenOutput ==
    /\ tag_pc = "open"
    /\ output_file' = IF start_index > 0
                      THEN [exists |-> TRUE, lines |-> output_file.lines]
                      ELSE [exists |-> TRUE, lines |-> <<>>]
    /\ current_index' = start_index
    /\ tag_pc' = "loop"
    /\ UNCHANGED <<addresses, progress_file, start_index, result, runs>>
    /\ UNCHANGED <<enc_vars, dec_vars, cls_vars, conc_vars, batch_vars, hand_vars>>

\* Lines 168-176: the next address of addresses[start_index:] is tagged.
TagSingle ==
    /\ tag_pc = "loop"
    /\ current_index < Len(addresses)
    /\ result' \in TagResults(addresses[current_index + 1])
    /\ tag_pc' = "write"
    /\ UNCHANGED <<addresses, output_file, progress_file, start_index, current_index, runs>>
    /\ UNCHANGED <<enc_vars, dec_vars, cls_vars, conc_vars, batch_vars, hand_vars>>

\* Lines 179-180: the result line written and flushed.
TagWriteResult ==
    /\ tag_pc = "write"
    /\ output_file' = [output_file EXCEPT !.lines = Append(@, result)]
    /\ tag_pc' = "progress"
    /\ UNCHANGED <<addresses, progress_file, start_index, current_index, result, runs>>
    /\ UNCHANGED <<enc_vars, dec_vars, cls_vars, conc_vars, batch_vars, hand_vars>>

\* Line 184: the progress file opened with 'w', which empties it.
TagOpenProgress ==
    /\ tag_pc = "progress"
    /\ progress_file' = EmptyProgress
    /\ tag_pc' = "progress_write"
    /\ UNCHANGED <<addresses, output_file, start_index, current_index, result, runs>>
    /\ UNCHANGED <<enc_vars, dec_vars, cls_vars, conc_vars, batch_vars, hand_vars>>

\* Lines 185-189: current_index + 1 written, the file closed, the delay.
TagWriteProgress ==
    /\ tag_pc = "progress_write"
    /\ progress_file' = [exists |-> TRUE, value |-> current_index + 1]
    /\ current_index' = current_index + 1
    /\ tag_pc' = "loop"
    /\ UNCHANGED <<addresses, output_file, start_index, result, runs>>
    /\ UNCHANGED <<enc_vars, dec_vars, cls_vars, conc_vars, batch_vars, hand_vars>>

\* Lines 192-195: after the loop the progress file is removed.
TagCleanup ==
    /\ tag_pc = "loop"
    /\ current_index >= Len(addresses)
    /\ progress_file' = NoProgress
    /\ tag_pc' = "done"
    /\ UNCHANGED <<addresses, output_file, start_index, current_index, result, runs>>
    /\ UNCHANGED <<enc_vars, dec_vars, cls_vars, conc_vars, batch_vars, hand_vars>>

\* The run is interrupted between two steps; the files stay as they are.
TagInterrupt ==
    /\ tag_pc \in {"start", "open", "loop", "write", "progress", "progress_write"}
    /\ runs < MaxRuns
    /\ tag_pc' = "interrupted"
    /\ UNCHANGED <<addresses, output_file, progress_file, start_index, current_index,
                   result, runs>>
    /\ UNCHANGED <<enc_vars, dec_vars, cls_vars, conc_vars, batch_vars, hand_vars>>

\* batch_tag_addresses invoked again with the same addresses and files.
TagInvokeAgain ==
    /\ tag_pc \in {"interrupted", "raised"}
    /\ runs < MaxRuns
    /\ tag_pc' = "start"
    /\ start_index' = 0
    /\ current_index' = 0
    /\ result' = NoResult
    /\ runs' = runs + 1
    /\ UNCHANGED <<addresses, output_file, progress_file>>
    /\ UNCHANGED <<enc_vars, dec_vars, cls_vars, conc_vars, batch_vars, hand_vars>>

\* The output file holds one result line per address, in address order.
OneLinePerAddress ==
    /\ output_file.exists
    /\ Len(output_file.lines) = Len(addresses)
    /\ \A i \in DOMAIN addresses : output_file.lines[i].address = addresses[i]

\* C30: once a run completes, whatever interruptions and re-invocations
\* came before, the output file holds exactly one result line per address
\* in address order and the progress file no longer exists.
C30_ResumedOutputComplete ==
    tag_pc = "done" => (OneLinePerAddress /\ ~progress_file.exists)

\* The same for a first run that is not interrupted.
C30_FirstRunComplete ==
    (tag_pc = "done" /\ runs = 1) => (OneLinePerAddress /\ ~progress_file.exists)

\* A completed run leaves no progress file.
C30_ProgressRemoved == tag_pc = "done" => ~progress_file.exists

\* Every component outside the single calls, idle.
ExtIdle == ConcIdle /\ BatchIdle /\ HandIdle /\ TagIdle

-----------------------------------------------------------------------------
(* Specifications: one per component *)

EncNext == EncLocate \/ EncEmit \/ EncReturn \/ EncDecode

InitEnc == EncInit /\ DecIdle /\ ClsIdle /\ ExtIdle

SpecEnc == InitEnc /\ [][EncNext]_vars

DecNext == DecRead \/ DecReturn

InitDec == DecInit /\ EncIdle /\ ClsIdle /\ ExtIdle

SpecDec == InitDec /\ [][DecNext]_vars

ClsNext == ClsIndex \/ ClsClassify \/ ClsExcept

InitCls == ClsInit /\ EncIdle /\ DecIdle /\ ExtIdle

SpecCls == InitCls /\ [][ClsNext]_vars

LvlNext == ClsIndex \/ ClsClassify

InitLvl == LvlInit /\ EncIdle /\ DecIdle /\ ExtIdle

SpecLvl == InitLvl /\ [][LvlNext]_vars

ConcNext == ConcStep \/ ConcCall

InitConc == ConcInit /\ EncIdle /\ DecIdle /\ ClsIdle /\ BatchIdle /\ HandIdle /\ TagIdle

SpecConc == InitConc /\ [][ConcNext]_vars

BatchNext == BatchRead \/ BatchWrite

InitBatch == BatchInit /\ EncIdle /\ DecIdle /\ ClsIdle /\ ConcIdle /\ HandIdle /\ TagIdle

SpecBatch == InitBatch /\ [][BatchNext]_vars

HandNext == DecRead \/ DecReturn \/ DecFormat

InitHand == HandInit /\ EncIdle /\ ClsIdle /\ ConcIdle /\ BatchIdle /\ TagIdle

SpecHand == InitHand /\ [][HandNext]_vars

TagNext ==
    \/ TagReadProgress
    \/ TagOpenOutput
    \/ TagSingle
    \/ TagWriteResult
    \/ TagOpenProgress
    \/ TagWriteProgress
    \/ TagCleanup
    \/ TagInterrupt
    \/ TagInvokeAgain

InitTag == TagInit /\ EncIdle /\ DecIdle /\ ClsIdle /\ ConcIdle /\ BatchIdle /\ HandIdle

SpecTag == InitTag /\ [][TagNext]_vars

=============================================================================
